---- MODULE Spec2Model ----
(***************************************************************************)
(* MimSim: predator/prey mimicry simulation (src/mimsim/mimicry.py and its *)
(* copy of the orchestration in src/mimsim/controller.py).                 *)
(*                                                                         *)
(* Probabilities (camo, pal, the uniform draw of random.random()) are      *)
(* exact rationals k/Scale.  A preference is kept exactly as the pair      *)
(* [prod, root], standing for (prod ^ (1/root)) / Scale, so that the       *)
(* geometric mean of a window is represented without rounding.             *)
(***************************************************************************)
EXTENDS Integers, Sequences, FiniteSets, TLC

\* ------------------------------------------------------------------ bounds
Scale == 2
MaxPopu == 2
MaxEncounters == 2
MaxGenerations == 2
MaxRepetitions == 2
MaxCalls == 3

\* int(sys.maxsize): the "unlimited" appetite / memory default.  Any number
\* larger than every count the bounded model can reach behaves the same.
maxsize == 1000000

None == "None"
\* Marks a call that returned before consulting the random source (not a
\* value randrange or random can return).
NoDraw == 0 - 1

\* ------------------------------------------------------------ small helpers
RECURSIVE SumSeq(_)
SumSeq(s) == IF s = <<>> THEN 0 ELSE Head(s) + SumSeq(Tail(s))

RECURSIVE ProdSeq(_)
ProdSeq(s) == IF s = <<>> THEN 1 ELSE Head(s) * ProdSeq(Tail(s))

RECURSIVE Pow(_, _)
Pow(b, e) == IF e = 0 THEN 1 ELSE b * Pow(b, e - 1)

\* list[-n:] of Python for n >= 0: the last n elements, but the WHOLE list
\* when n = 0 (because -0 = 0 and list[0:] is the list).
LastSlice(s, n) ==
    IF n = 0 \/ n >= Len(s) THEN s ELSE SubSeq(s, Len(s) - n + 1, Len(s))

\* round() of Python 3 on the exact quotient n/d (n >= 0, d > 0): round half
\* to even.
Round(n, d) ==
    LET q == n \div d
        r == n % d
    IN  IF 2 * r < d THEN q
        ELSE IF 2 * r > d THEN q + 1
        ELSE IF q % 2 = 0 THEN q ELSE q + 1

\* OrderedDict helpers: a pool is the sequence of its (name, object) items.
names(pool) == [k \in 1..Len(pool) |-> pool[k].name]
NameSet(pool) == {pool[k].name : k \in 1..Len(pool)}
IndexOf(pool, name) == CHOOSE k \in 1..Len(pool) : pool[k].name = name
getitem(pool, name) == pool[IndexOf(pool, name)].obj
\* The object bound to name, after a method changed it in place.
setitem(pool, name, obj) == [pool EXCEPT ![IndexOf(pool, name)].obj = obj]

\* -------------------------------------------------------------------- Prey
\* Prey.__init__: the fields are stored as given (the property setters are
\* not used by the constructor); popu_orig is the population at construction.
Prey(popu, phen, size, camo, pal) ==
    [popu |-> popu, popu_orig |-> popu, phen |-> phen,
     size |-> size, camo |-> camo, pal |-> pal]

\* ---------------------------------------------------------------- PreyPool
PreyPool_popu_of(pool, spec_name, surviving_only) ==
    IF spec_name \notin NameSet(pool) THEN 0
    ELSE IF surviving_only THEN getitem(pool, spec_name).popu
    ELSE getitem(pool, spec_name).popu_orig

PreyPool_popu(pool, surviving_only) ==
    SumSeq([k \in 1..Len(pool) |->
               PreyPool_popu_of(pool, pool[k].name, surviving_only)])

\* Mutant of PreyWalk: the walk compares and subtracts popu_orig.
RECURSIVE PreyWalk_by_orig(_, _, _)
PreyWalk_by_orig(pool, k, idx) ==
    IF k > Len(pool) THEN None
    ELSE IF idx < pool[k].obj.popu_orig THEN pool[k].name
    ELSE PreyWalk_by_orig(pool, k + 1, idx - pool[k].obj.popu_orig)

\* The walk of PreyPool.select: it always compares and subtracts
\* prey_obj.popu, whatever the mode.
RECURSIVE PreyWalk(_, _, _)
PreyWalk(pool, k, idx) ==
    IF k > Len(pool) THEN None
    ELSE IF idx < pool[k].obj.popu THEN pool[k].name
    ELSE PreyWalk(pool, k + 1, idx - pool[k].obj.popu)

\* The values random.randrange(available_popu) can return; NoDraw when
\* select returns before drawing.
PreyPool_draws(pool, surviving_only) ==
    IF PreyPool_popu(pool, surviving_only) = 0 THEN {NoDraw}
    ELSE 0..(PreyPool_popu(pool, surviving_only) - 1)

\* PreyPool.select with the drawn index idx: the name of the selected
\* species, or None.
PreyPool_select(pool, surviving_only, idx) ==
    IF PreyPool_popu(pool, surviving_only) = 0 THEN None
    ELSE PreyWalk(pool, 1, idx)

\* Mutant of PreyPool_repopulate: a collapsed pool is restocked with the
\* original populations.
PreyPool_repopulate_revive(pool, popu_target) ==
    LET prey_ct_latest == PreyPool_popu(pool, TRUE)
    IN  [k \in 1..Len(pool) |->
            [pool[k] EXCEPT !.obj.popu =
                IF prey_ct_latest = 0 THEN pool[k].obj.popu_orig
                ELSE Round(pool[k].obj.popu * popu_target, prey_ct_latest)]]

\* Mutant of PreyPool_repopulate: every species goes back to its original
\* population.
PreyPool_repopulate_to_orig(pool, popu_target) ==
    LET prey_ct_latest == PreyPool_popu(pool, TRUE)
    IN  [k \in 1..Len(pool) |->
            [pool[k] EXCEPT !.obj.popu =
                IF prey_ct_latest = 0 THEN 0 ELSE pool[k].obj.popu_orig]]

\* Mutant of PreyPool_repopulate: the ratio is truncated instead of rounded.
PreyPool_repopulate_truncated(pool, popu_target) ==
    LET prey_ct_latest == PreyPool_popu(pool, TRUE)
    IN  [k \in 1..Len(pool) |->
            [pool[k] EXCEPT !.obj.popu =
                IF prey_ct_latest = 0 THEN 0
                ELSE (pool[k].obj.popu * popu_target) \div prey_ct_latest]]

PreyPool_repopulate(pool, popu_target) ==
    LET prey_ct_latest == PreyPool_popu(pool, TRUE)
    IN  [k \in 1..Len(pool) |->
            [pool[k] EXCEPT !.obj.popu =
                IF prey_ct_latest = 0 THEN 0
                ELSE Round(pool[k].obj.popu * popu_target, prey_ct_latest)]]

\* Mutant of PreyPool_repopulate_default: nothing is repopulated.
PreyPool_repopulate_default_noop(pool) == pool

\* repopulate() without a target: the sum of the original populations.
PreyPool_repopulate_default(pool) ==
    PreyPool_repopulate(pool, PreyPool_popu(pool, FALSE))

\* --------------------------------------------------------- PredatorSpecies
\* PredatorSpecies.Pred.__init__: no phenotype known, nothing eaten.
Pred == [prefs |-> [ph \in {} |-> <<>>], prey_eaten |-> 0]

Phens(prey_pool) == {prey_pool[k].obj.phen : k \in 1..Len(prey_pool)}

\* Mutant of learn_all: every phenotype of the pool gets an empty entry,
\* known or not.
learn_all_afresh(pred, prey_pool) ==
    [pred EXCEPT !.prefs =
        [ph \in (DOMAIN pred.prefs) \cup Phens(prey_pool) |->
            IF ph \in Phens(prey_pool) THEN <<>> ELSE pred.prefs[ph]]]

learn_all(pred, prey_pool) ==
    [pred EXCEPT !.prefs =
        [ph \in (DOMAIN pred.prefs) \cup Phens(prey_pool) |->
            IF ph \in DOMAIN pred.prefs THEN pred.prefs[ph] ELSE <<>>]]

\* PredatorSpecies.__init__ (prey_types given): popu copies of one
\* individual that has learnt every phenotype of prey_types.
PredatorSpecies(popu, prey_types, app, mem, insatiable) ==
    [app |-> app, mem |-> mem, insatiable |-> insatiable,
     lst |-> [k \in 1..popu |-> learn_all(Pred, prey_types)]]

\* Mutant of hungry: the appetite test off by one.
hungry_off_by_one(spec, i) == spec.lst[i + 1].prey_eaten <= spec.app

\* Individuals are indexed from 0 as in the source: self[i] is lst[i + 1].
hungry(spec, i) == spec.lst[i + 1].prey_eaten < spec.app

\* statistics.geometric_mean(xs) of values k/Scale, kept exactly:
\* (prod ^ (1/root)) / Scale.
geometric_mean(xs) == [prod |-> ProdSeq(xs), root |-> Len(xs)]

\* The plain numbers 1 and 0 that get_pref returns, in the same form.
One == [prod |-> Scale, root |-> 1]
Zero == [prod |-> 0, root |-> 1]

\* Mutant of get_pref: an empty entry counts as total unpalatability.
get_pref_empty_is_zero(spec, i, phen) ==
    LET pred == spec.lst[i + 1]
    IN  IF phen \notin DOMAIN pred.prefs THEN One
        ELSE LET experiences == pred.prefs[phen]
             IN  IF experiences = <<>> THEN Zero
                 ELSE IF \E k \in 1..Len(experiences) : experiences[k] = 0
                      THEN Zero
                 ELSE geometric_mean(
                          Append(experiences, experiences[Len(experiences)]))

\* Mutant of get_pref: the most recent experience is not repeated.
get_pref_no_repeat(spec, i, phen) ==
    LET pred == spec.lst[i + 1]
    IN  IF phen \notin DOMAIN pred.prefs THEN One
        ELSE LET experiences == pred.prefs[phen]
             IN  IF experiences = <<>> THEN One
                 ELSE IF \E k \in 1..Len(experiences) : experiences[k] = 0
                      THEN Zero
                 ELSE geometric_mean(experiences)

get_pref(spec, i, phen) ==
    LET pred == spec.lst[i + 1]
    IN  IF phen \notin DOMAIN pred.prefs THEN One
        ELSE LET experiences == pred.prefs[phen]
             IN  IF experiences = <<>> THEN One
                 ELSE IF \E k \in 1..Len(experiences) : experiences[k] = 0
                      THEN Zero
                 ELSE geometric_mean(
                          Append(experiences, experiences[Len(experiences)]))

\* Mutant of update_pref: the trim keeps the oldest mem values.
update_pref_keep_oldest(spec, i, prey_item) ==
    LET appended == Append(spec.lst[i + 1].prefs[prey_item.phen], prey_item.pal)
    IN  [spec EXCEPT !.lst[i + 1].prefs[prey_item.phen] =
            IF Len(appended) > spec.mem THEN SubSeq(appended, 1, spec.mem)
            ELSE appended]

update_pref(spec, i, prey_item) ==
    LET appended == Append(spec.lst[i + 1].prefs[prey_item.phen], prey_item.pal)
    IN  [spec EXCEPT !.lst[i + 1].prefs[prey_item.phen] =
            IF Len(appended) > spec.mem THEN LastSlice(appended, spec.mem)
            ELSE appended]

\* Mutant of eat: the meal is remembered but not counted.
eat_without_counting(spec, i, prey_item) ==
    update_pref([spec EXCEPT !.lst[i + 1].prefs =
                    IF prey_item.phen \in DOMAIN @ THEN @
                    ELSE [ph \in (DOMAIN @) \cup {prey_item.phen} |->
                             IF ph \in DOMAIN @ THEN @[ph] ELSE <<>>]],
                i, prey_item)

\* Mutant of eat: the history is kept per species (a species of another
\* size under an entry of its own).
eat_per_species(spec, i, prey_item) ==
    LET key == IF prey_item.size = 1 THEN prey_item.phen ELSE "z"
        known == [spec EXCEPT !.lst[i + 1].prefs =
                     IF key \in DOMAIN @ THEN @
                     ELSE [ph \in (DOMAIN @) \cup {key} |->
                              IF ph \in DOMAIN @ THEN @[ph] ELSE <<>>]]
        updated == update_pref(known, i, [prey_item EXCEPT !.phen = key])
    IN  [updated EXCEPT !.lst[i + 1].prey_eaten = @ + prey_item.size]

eat(spec, i, prey_item) ==
    LET known == [spec EXCEPT !.lst[i + 1].prefs =
                     IF prey_item.phen \in DOMAIN @ THEN @
                     ELSE [ph \in (DOMAIN @) \cup {prey_item.phen} |->
                              IF ph \in DOMAIN @ THEN @[ph] ELSE <<>>]]
        updated == update_pref(known, i, prey_item)
    IN  [updated EXCEPT !.lst[i + 1].prey_eaten = @ + prey_item.size]

\* pursuit_chance = 1 * (1 - camo) * get_pref, with coef = Scale - camo:
\* (coef / Scale) * (pref.prod ^ (1/pref.root)) / Scale.
pursuit_chance(spec, i, prey_item) ==
    [coef |-> Scale - prey_item.camo, pref |-> get_pref(spec, i, prey_item.phen)]

\* pursuit_chance >= random.random(), the draw being draw/Scale.  A negative
\* coef times a zero preference is -0.0, which is >= 0.0.
ChanceGE(chance, draw) ==
    IF chance.coef < 0 THEN chance.pref.prod = 0 /\ draw = 0
    ELSE Pow(chance.coef, chance.pref.root) * chance.pref.prod
             >= Pow(draw * Scale, chance.pref.root)

\* The values random.random() can return in encounter, in units of 1/Scale
\* (the interval [0, 1)); NoDraw when encounter returns before drawing.
encounter_draws(spec, i) == IF hungry(spec, i) THEN 0..(Scale - 1) ELSE {NoDraw}

\* Mutant of encounter: the draw is made before hunger is looked at.
encounter_draws_first(spec, i, prey_item, draw) ==
    IF ~hungry(spec, i)
    THEN [ok |-> FALSE, spec |-> spec, prey |-> prey_item, drew |-> TRUE]
    ELSE IF ChanceGE(pursuit_chance(spec, i, prey_item), draw)
         THEN [ok |-> TRUE, spec |-> eat(spec, i, prey_item),
               prey |-> prey_item, drew |-> TRUE]
         ELSE [ok |-> FALSE, spec |-> spec, prey |-> prey_item, drew |-> TRUE]

\* Mutant of encounter: a predator that decides not to eat still remembers
\* the prey.
encounter_fail_remembers(spec, i, prey_item, draw) ==
    IF ~hungry(spec, i)
    THEN [ok |-> FALSE, spec |-> spec, prey |-> prey_item, drew |-> FALSE]
    ELSE IF ChanceGE(pursuit_chance(spec, i, prey_item), draw)
         THEN [ok |-> TRUE, spec |-> eat(spec, i, prey_item),
               prey |-> prey_item, drew |-> TRUE]
         ELSE [ok |-> FALSE, spec |-> eat_without_counting(spec, i, prey_item),
               prey |-> prey_item, drew |-> TRUE]

\* Mutant of encounter: a species that is not insatiable refuses a prey
\* bigger than what is left of its appetite.
encounter_by_filling(spec, i, prey_item, draw) ==
    IF ~hungry(spec, i)
    THEN [ok |-> FALSE, spec |-> spec, prey |-> prey_item, drew |-> FALSE]
    ELSE IF /\ ChanceGE(pursuit_chance(spec, i, prey_item), draw)
            /\ spec.insatiable
                  \/ prey_item.size <= spec.app - spec.lst[i + 1].prey_eaten
         THEN [ok |-> TRUE, spec |-> eat(spec, i, prey_item),
               prey |-> prey_item, drew |-> TRUE]
         ELSE [ok |-> FALSE, spec |-> spec, prey |-> prey_item, drew |-> TRUE]

\* PredatorSpecies.encounter with the drawn value: the returned bool, the
\* species afterwards, and whether random.random() was called.
encounter(spec, i, prey_item, draw) ==
    IF ~hungry(spec, i)
    THEN [ok |-> FALSE, spec |-> spec, prey |-> prey_item, drew |-> FALSE]
    ELSE IF ChanceGE(pursuit_chance(spec, i, prey_item), draw)
         THEN [ok |-> TRUE, spec |-> eat(spec, i, prey_item),
               prey |-> prey_item, drew |-> TRUE]
         ELSE [ok |-> FALSE, spec |-> spec, prey |-> prey_item, drew |-> TRUE]

PredatorSpecies_reset(spec) ==
    [spec EXCEPT !.lst =
        [k \in 1..Len(spec.lst) |->
            [prefs |-> [ph \in DOMAIN spec.lst[k].prefs |-> <<>>],
             prey_eaten |-> 0]]]

\* ------------------------------------------------------------ PredatorPool
HungryIdx(spec) == {i \in 0..(Len(spec.lst) - 1) : hungry(spec, i)}

PredatorPool_popu_of(pool, spec_name, hungry_only) ==
    IF spec_name \notin NameSet(pool) THEN 0
    ELSE IF hungry_only THEN Cardinality(HungryIdx(getitem(pool, spec_name)))
    ELSE Len(getitem(pool, spec_name).lst)

PredatorPool_popu(pool, hungry_only) ==
    SumSeq([k \in 1..Len(pool) |->
               PredatorPool_popu_of(pool, pool[k].name, hungry_only)])

\* Mutant of NthHungry: the index is used in the unfiltered sequence.
NthHungry_unfiltered(spec, idx) == idx

\* [i for i in range(popu) if hungry(i)][idx]: the idx-th hungry individual.
NthHungry(spec, idx) ==
    CHOOSE i \in HungryIdx(spec) :
        Cardinality({j \in HungryIdx(spec) : j < i}) = idx

RECURSIVE PredWalk(_, _, _, _)
PredWalk(pool, k, hungry_only, idx) ==
    IF k > Len(pool) THEN <<None, None>>
    ELSE IF idx < PredatorPool_popu_of(pool, pool[k].name, hungry_only)
         THEN IF hungry_only THEN <<pool[k].name, NthHungry(pool[k].obj, idx)>>
              ELSE <<pool[k].name, idx>>
    ELSE PredWalk(pool, k + 1, hungry_only,
                  idx - PredatorPool_popu_of(pool, pool[k].name, hungry_only))

PredatorPool_draws(pool, hungry_only) ==
    IF PredatorPool_popu(pool, hungry_only) = 0 THEN {NoDraw}
    ELSE 0..(PredatorPool_popu(pool, hungry_only) - 1)

\* PredatorPool.select with the drawn index idx: (species name, individual).
PredatorPool_select(pool, hungry_only, idx) ==
    IF PredatorPool_popu(pool, hungry_only) = 0 THEN <<None, None>>
    ELSE PredWalk(pool, 1, hungry_only, idx)

PredatorPool_reset(pool) ==
    [k \in 1..Len(pool) |-> [pool[k] EXCEPT !.obj = PredatorSpecies_reset(@)]]

\* ===================================================================== state
VARIABLES
    sim,                \* the Simulation: pools and run parameters
    pc,                 \* position of the running entry point
    trial,              \* run_raw: trial index
    gen,                \* multi_gen / all_gens: generation index g
    left,               \* one_gen: iterations of the for loop still to run
    prey_pool_current,  \* multi_gen / all_gens: prey_pool_current
    pred_pool_current,  \* multi_gen / all_gens: pred_pool_current
    prey_pool,          \* one_gen: prey_pool (a PreyPool under test otherwise)
    pred_pool,          \* one_gen: pred_pool (a PredatorPool under test otherwise)
    out,                \* the record the consumer holds: the one last handed out,
                        \* until the producer starts on the next one
    last,               \* the last call / loop iteration: arguments and result
    ncalls              \* number of calls made by a direct caller of the API

vars == <<sim, pc, trial, gen, left, prey_pool_current, pred_pool_current,
          prey_pool, pred_pool, out, last, ncalls>>

NoCall == [op |-> "none"]

\* ======================================================== the simulation run
\* Simulation.__init__: every individual of the predator pool learns every
\* phenotype of the prey pool.
Simulation(prey_in, pred_in, encounters, generations, repetitions, repopulate, entry) ==
    [prey_pool |-> prey_in,
     pred_pool |-> [k \in 1..Len(pred_in) |->
                      [pred_in[k] EXCEPT !.obj.lst =
                          [j \in 1..Len(@) |-> learn_all(@[j], prey_in)]]],
     encounters |-> encounters, generations |-> generations,
     repetitions |-> repetitions, repopulate |-> repopulate,
     entry |-> entry]

\* Entry points: one_gen called on the Simulation's pools (as in
\* ExampleExperiments/examine_predators.py), run_raw(verbose=True) which
\* iterates all_gens, run_raw(verbose=False) which calls multi_gen.
Entries == {"one_gen", "all_gens", "multi_gen"}

\* Configurations: prey "a" at full population, either plain, fully
\* camouflaged or totally unpalatable; prey "b" absent or a single animal,
\* bigger and half palatable, with its own phenotype "y" or mimicking "a";
\* one predator species: a single individual with unlimited appetite and
\* unlimited memory or a memory of one, or one or two individuals with an
\* appetite of one.
PreyTraits == {[camo |-> 0, pal |-> Scale, phen |-> "y"],
               [camo |-> 0, pal |-> Scale, phen |-> "x"],
               [camo |-> Scale, pal |-> Scale, phen |-> "y"],
               [camo |-> 0, pal |-> 0, phen |-> "x"]}
PredTraits == {[popu |-> 1, app |-> maxsize, mem |-> maxsize],
               [popu |-> 1, app |-> maxsize, mem |-> 1],
               [popu |-> 1, app |-> 1, mem |-> maxsize],
               [popu |-> 2, app |-> 1, mem |-> maxsize]}

\* Besides, the plain configuration is also run with an empty prey pool and
\* with an empty predator pool (PreyPool() / PredatorPool() without species),
\* with a single plain prey species, and, in verbose mode with repopulate,
\* with a prey pool of three plain species of very different sizes.
Shapes == {"both", "no_prey", "no_pred", "single", "uneven"}

UnevenPreyPool ==
    <<[name |-> "a", obj |-> Prey(1, "x", 1, 0, Scale)],
      [name |-> "b", obj |-> Prey(1, "y", 1, 0, Scale)],
      [name |-> "c", obj |-> Prey(5, "z", 1, 0, Scale)]>>

Init ==
    /\ \E tr \in PreyTraits, pb \in {0, 1}, shape \in Shapes :
       \E tp \in PredTraits, entry \in Entries, repopulate \in BOOLEAN :
          /\ entry = "one_gen" => ~repopulate
          /\ shape # "both" =>
                /\ tr = [camo |-> 0, pal |-> Scale, phen |-> "y"]
                /\ pb = 1
                /\ tp = [popu |-> 1, app |-> maxsize, mem |-> maxsize]
          /\ shape = "uneven" => (entry = "all_gens" /\ repopulate)
          /\ sim = Simulation(
                IF shape = "no_prey" THEN <<>>
                ELSE IF shape = "uneven" THEN UnevenPreyPool
                ELSE IF shape = "single"
                THEN <<[name |-> "a", obj |-> Prey(MaxPopu, "x", 1, 0, Scale)]>>
                ELSE <<[name |-> "a", obj |-> Prey(MaxPopu, "x", 1, tr.camo, tr.pal)],
                       [name |-> "b", obj |-> Prey(pb, tr.phen, 2, 0, 1)]>>,
                IF shape = "no_pred" THEN <<>>
                ELSE <<[name |-> "p",
                        obj |-> PredatorSpecies(tp.popu, <<>>, tp.app, tp.mem, TRUE)]>>,
                MaxEncounters, MaxGenerations, MaxRepetitions, repopulate, entry)
    /\ pc = "start"
    /\ trial = 0 /\ gen = 0 /\ left = 0
    /\ prey_pool_current = <<>> /\ pred_pool_current = <<>>
    /\ prey_pool = <<>> /\ pred_pool = <<>>
    /\ out = NoCall
    /\ last = NoCall
    /\ ncalls = 0

\* Mutant of Record: trials are numbered from 0.
Record_from_zero(t, g, prey, pred) ==
    [trial |-> t - 1, gen |-> g, prey_pool |-> prey, pred_pool |-> pred]

Record(t, g, prey, pred) ==
    [trial |-> t, gen |-> g, prey_pool |-> prey, pred_pool |-> pred]

\* Mutant of one_gen_continue: the loop body runs unconditionally.
one_gen_continue_always(prey, pred) == TRUE

\* Mutant of one_gen_continue: either condition is enough to go on.
one_gen_continue_either(prey, pred) ==
    PreyPool_popu(prey, TRUE) > 0 \/ PredatorPool_popu(pred, TRUE) > 0

\* The condition of the if in one_gen's loop.
one_gen_continue(prey, pred) ==
    PreyPool_popu(prey, TRUE) > 0 /\ PredatorPool_popu(pred, TRUE) > 0

\* Start of a trial: run_raw's for loop calls all_gens or multi_gen, which
\* deep-copy the Simulation's pools; with repopulate, all_gens first yields
\* them as generation 0.  A direct one_gen call starts with its copies.
StartTrial ==
    /\ pc \in {"start", "trial_end"}
    /\ trial < (IF sim.entry = "one_gen" THEN 1 ELSE sim.repetitions)
    /\ trial' = trial + 1
    /\ gen' = 0
    /\ prey_pool_current' = sim.prey_pool
    /\ pred_pool_current' = sim.pred_pool
    /\ IF sim.entry = "all_gens" /\ sim.repopulate
       THEN /\ out' = Record(trial', 0, sim.prey_pool, sim.pred_pool)
            /\ pc' = "yielded"
       ELSE /\ out' = NoCall
            /\ pc' = "gen"
    /\ UNCHANGED <<sim, left, prey_pool, pred_pool, last, ncalls>>

\* Mutant of BeginGen: multi_gen keeps the predators of the generation before.
BeginGen_keeps_predators ==
    /\ pc = "gen"
    /\ gen' = gen + 1
    /\ IF sim.entry = "multi_gen"
       THEN /\ pred_pool_current' = pred_pool_current
            /\ prey_pool_current' = PreyPool_repopulate_default(prey_pool_current)
       ELSE UNCHANGED <<prey_pool_current, pred_pool_current>>
    /\ prey_pool' = prey_pool_current'
    /\ pred_pool' = pred_pool_current'
    /\ left' = sim.encounters
    /\ pc' = "loop"
    /\ out' = NoCall
    /\ UNCHANGED <<sim, trial, last, ncalls>>

\* Mutant of BeginGen: the next generation starts without waiting for the
\* consumer to ask for the next record.
BeginGen_eager ==
    /\ pc \in {"gen", "yielded"}
    /\ gen < sim.generations
    /\ gen' = gen + 1
    /\ IF sim.entry = "multi_gen"
       THEN /\ pred_pool_current' = sim.pred_pool
            /\ prey_pool_current' = PreyPool_repopulate_default(prey_pool_current)
       ELSE UNCHANGED <<prey_pool_current, pred_pool_current>>
    /\ prey_pool' = prey_pool_current'
    /\ pred_pool' = pred_pool_current'
    /\ left' = sim.encounters
    /\ pc' = "loop"
    /\ out' = NoCall
    /\ UNCHANGED <<sim, trial, last, ncalls>>

\* Mutant of BeginGen: the loop is given one iteration more than `encounters`.
BeginGen_one_more ==
    /\ pc = "gen"
    /\ gen' = gen + 1
    /\ IF sim.entry = "multi_gen"
       THEN /\ pred_pool_current' = sim.pred_pool
            /\ prey_pool_current' = PreyPool_repopulate_default(prey_pool_current)
       ELSE UNCHANGED <<prey_pool_current, pred_pool_current>>
    /\ prey_pool' = prey_pool_current'
    /\ pred_pool' = pred_pool_current'
    /\ left' = sim.encounters + 1
    /\ pc' = "loop"
    /\ out' = NoCall
    /\ UNCHANGED <<sim, trial, last, ncalls>>

\* Start of a generation.  multi_gen first resets the predators and
\* repopulates; then one_gen deep-copies its arguments.
BeginGen ==
    /\ pc = "gen"
    /\ gen' = gen + 1
    /\ IF sim.entry = "multi_gen"
       THEN /\ pred_pool_current' = sim.pred_pool
            /\ prey_pool_current' = PreyPool_repopulate_default(prey_pool_current)
       ELSE UNCHANGED <<prey_pool_current, pred_pool_current>>
    /\ prey_pool' = prey_pool_current'
    /\ pred_pool' = pred_pool_current'
    /\ left' = sim.encounters
    /\ pc' = "loop"
    /\ out' = NoCall
    /\ UNCHANGED <<sim, trial, last, ncalls>>

\* One iteration of one_gen's loop with the if taken: select a prey (by
\* surviving_only=False), select a predator (hungry_only=False), look the
\* predator species up, and resolve the encounter.
CycleDrawing(prey_idx, pred_idx, draw) ==
    /\ pc = "loop"
    /\ left > 0
    /\ one_gen_continue(prey_pool, pred_pool)
    /\ \E prey_name \in {PreyPool_select(prey_pool, FALSE, prey_idx)} :
       \E sel \in {PredatorPool_select(pred_pool, FALSE, pred_idx)} :
       \E picks \in {(IF prey_idx = NoDraw THEN <<>> ELSE <<"randrange">>)
                     \o (IF pred_idx = NoDraw THEN <<>> ELSE <<"randrange">>)} :
           IF sel[1] = None
           THEN \* pred_pool[None] raises TypeError
                /\ draw = NoDraw
                /\ pc' = "raised"
                /\ last' = [op |-> "cycle", prey |-> prey_name, pred |-> sel,
                            ok |-> FALSE, drew |-> FALSE, draws |-> picks]
                /\ UNCHANGED <<prey_pool, pred_pool, left>>
           ELSE IF prey_name = None
           THEN /\ draw = NoDraw
                /\ last' = [op |-> "cycle", prey |-> prey_name, pred |-> sel,
                            ok |-> FALSE, drew |-> FALSE, draws |-> picks]
                /\ left' = left - 1
                /\ UNCHANGED <<prey_pool, pred_pool, pc>>
           ELSE /\ draw \in encounter_draws(getitem(pred_pool, sel[1]), sel[2])
                /\ \E r \in {encounter(getitem(pred_pool, sel[1]), sel[2],
                                        getitem(prey_pool, prey_name), draw)} :
                    /\ pred_pool' = setitem(pred_pool, sel[1], r.spec)
                    /\ last' = [op |-> "cycle", prey |-> prey_name, pred |-> sel,
                                ok |-> r.ok, drew |-> r.drew,
                                draws |-> picks \o (IF r.drew THEN <<"random">>
                                                    ELSE <<>>)]
                    /\ IF r.ok /\ r.prey.popu - 1 < 0
                       THEN \* the popu setter raises ValueError
                            /\ pc' = "raised"
                            /\ UNCHANGED <<prey_pool, left>>
                       ELSE /\ prey_pool' =
                                  setitem(prey_pool, prey_name,
                                          [r.prey EXCEPT !.popu =
                                              IF r.ok THEN @ - 1 ELSE @])
                            /\ left' = left - 1
                            /\ pc' = pc
    /\ UNCHANGED <<sim, trial, gen, prey_pool_current, pred_pool_current, out, ncalls>>

\* The values random.random() can return in an encounter, or none.
DrawAny == {NoDraw} \cup 0..(Scale - 1)

\* One cycle, whatever the encounter's draw.
Cycle(prey_idx, pred_idx) ==
    \E draw \in DrawAny : CycleDrawing(prey_idx, pred_idx, draw)

\* Mutant of Break: the loop may be left while prey and hungry predators
\* remain.
Break_at_will ==
    /\ pc = "loop"
    /\ left > 0
    /\ pc' = "return"
    /\ UNCHANGED <<sim, trial, gen, left, prey_pool_current, pred_pool_current,
                   prey_pool, pred_pool, out, last, ncalls>>

\* The else branch of the loop: no prey left or no hungry predator left.
Break ==
    /\ pc = "loop"
    /\ left > 0
    /\ ~one_gen_continue(prey_pool, pred_pool)
    /\ pc' = "return"
    /\ UNCHANGED <<sim, trial, gen, left, prey_pool_current, pred_pool_current,
                   prey_pool, pred_pool, out, last, ncalls>>

\* one_gen returns its pools to the caller, which goes on to its next yield
\* or return; one_gen's own frame (its locals) is gone.
Return ==
    /\ pc = "return" \/ (pc = "loop" /\ left = 0)
    /\ CASE sim.entry = "one_gen" ->
              /\ prey_pool_current' = prey_pool
              /\ pred_pool_current' = pred_pool
              /\ out' = Record(trial, gen, prey_pool, pred_pool)
              /\ pc' = "done"
         [] sim.entry = "all_gens" /\ sim.repopulate ->
              /\ prey_pool_current' = PreyPool_repopulate_default(prey_pool)
              /\ pred_pool_current' = sim.pred_pool
              /\ out' = Record(trial, gen, prey_pool_current', pred_pool_current')
              /\ pc' = "yielded"
         [] sim.entry = "all_gens" /\ ~sim.repopulate ->
              /\ prey_pool_current' = prey_pool
              /\ pred_pool_current' = pred_pool
              /\ out' = Record(trial, gen, prey_pool, pred_pool)
              /\ pc' = "yielded"
         [] sim.entry = "multi_gen" /\ gen < sim.generations ->
              /\ prey_pool_current' = prey_pool
              /\ pred_pool_current' = pred_pool
              /\ out' = NoCall
              /\ pc' = "gen"
         [] sim.entry = "multi_gen" /\ gen >= sim.generations ->
              /\ prey_pool_current' =
                    IF sim.repopulate THEN PreyPool_repopulate_default(prey_pool)
                    ELSE prey_pool
              /\ pred_pool_current' = pred_pool
              /\ out' = Record(trial, 1, prey_pool_current', pred_pool)
              /\ pc' = "yielded"
    /\ prey_pool' = <<>> /\ pred_pool' = <<>> /\ left' = 0
    /\ last' = NoCall
    /\ UNCHANGED <<sim, trial, gen, ncalls>>

\* Mutant of Resume: all_gens runs one generation more.
Resume_one_more ==
    /\ pc = "yielded"
    /\ IF sim.entry = "all_gens" /\ ~sim.repopulate
       THEN /\ prey_pool_current' = PreyPool_repopulate_default(prey_pool_current)
            /\ pred_pool_current' = sim.pred_pool
            /\ out' = [out EXCEPT !.prey_pool = prey_pool_current']
       ELSE UNCHANGED <<prey_pool_current, pred_pool_current, out>>
    /\ pc' = IF sim.entry = "all_gens" /\ gen <= sim.generations THEN "gen"
             ELSE "trial_end"
    /\ UNCHANGED <<sim, trial, gen, left, prey_pool, pred_pool, last, ncalls>>

\* The consumer asks for the next record: the generator resumes after its
\* yield.  Without repopulate, all_gens now repopulates the pool it has just
\* yielded (the consumer's record holds that same object) and resets the
\* predators.
Resume ==
    /\ pc = "yielded"
    /\ IF sim.entry = "all_gens" /\ ~sim.repopulate
       THEN /\ prey_pool_current' = PreyPool_repopulate_default(prey_pool_current)
            /\ pred_pool_current' = sim.pred_pool
            /\ out' = [out EXCEPT !.prey_pool = prey_pool_current']
       ELSE UNCHANGED <<prey_pool_current, pred_pool_current, out>>
    /\ pc' = IF sim.entry = "all_gens" /\ gen < sim.generations THEN "gen"
             ELSE "trial_end"
    /\ UNCHANGED <<sim, trial, gen, left, prey_pool, pred_pool, last, ncalls>>

\* Mutant of Finish: the pools the last trial ended with are stored in the
\* Simulation.
Finish_stores_pools ==
    /\ pc = "trial_end"
    /\ trial >= sim.repetitions
    /\ pc' = "done"
    /\ out' = NoCall
    /\ sim' = [sim EXCEPT !.prey_pool = prey_pool_current,
                          !.pred_pool = pred_pool_current]
    /\ UNCHANGED <<trial, gen, left, prey_pool_current, pred_pool_current,
                   prey_pool, pred_pool, last, ncalls>>

\* run_raw's for loop over the trials is exhausted.
Finish ==
    /\ pc = "trial_end"
    /\ trial >= sim.repetitions
    /\ pc' = "done"
    /\ out' = NoCall
    /\ UNCHANGED <<sim, trial, gen, left, prey_pool_current, pred_pool_current,
                   prey_pool, pred_pool, last, ncalls>>

Next ==
    \/ StartTrial
    \/ BeginGen
    \/ \E prey_idx \in PreyPool_draws(prey_pool, FALSE) :
          \E pred_idx \in PredatorPool_draws(pred_pool, FALSE) :
              Cycle(prey_idx, pred_idx)
    \/ Break
    \/ Return
    \/ Resume
    \/ Finish

Spec == Init /\ [][Next]_vars

\* ============================================== PredatorSpecies called directly
\* A caller that builds two Prey objects and one PredatorSpecies and then calls
\* eat, encounter and reset in any order.

\* Values Prey.__init__ stores unvalidated, in units of 1/Scale: one below 0
\* and one above 1 besides 0, 1/Scale and 1.  (A negative pal makes
\* statistics.geometric_mean raise; it is left out.)
CamoAny == {0 - 1, 0, 1, Scale, Scale + 1}
PalAny == {0, 1, Scale, Scale + 1}

\* Values the app and mem setters accept: any int >= 0.
AppAny == {0, 1, 2, maxsize}
MemAny == {0, 1, 2, maxsize}

TheSpec == getitem(pred_pool, "p")

PredInit ==
    /\ \E camo \in CamoAny, pal \in PalAny, phen \in {"x", "y"} :
          prey_pool = <<[name |-> "a", obj |-> Prey(1, "x", 1, camo, pal)],
                        [name |-> "b", obj |-> Prey(1, phen, 2, 0, 1)]>>
    /\ \E learnt \in BOOLEAN, app \in AppAny, mem \in MemAny :
          pred_pool =
              <<[name |-> "p",
                 obj |-> PredatorSpecies(2, IF learnt THEN prey_pool ELSE <<>>,
                                         app, mem, TRUE)]>>
    /\ sim = [title |-> "unit"]
    /\ pc = "unit"
    /\ trial = 0 /\ gen = 0 /\ left = 0
    /\ prey_pool_current = <<>> /\ pred_pool_current = <<>>
    /\ out = NoCall
    /\ last = NoCall
    /\ ncalls = 0

RunFrame == UNCHANGED <<sim, pc, trial, gen, left, prey_pool_current,
                        pred_pool_current, out>>

CallEat(i, name) ==
    /\ ncalls < MaxCalls
    /\ pred_pool' = setitem(pred_pool, "p", eat(TheSpec, i, getitem(prey_pool, name)))
    /\ last' = [op |-> "eat", i |-> i, name |-> name]
    /\ ncalls' = ncalls + 1
    /\ UNCHANGED prey_pool /\ RunFrame

CallEncounter(i, name, draw) ==
    /\ ncalls < MaxCalls
    /\ LET r == encounter(TheSpec, i, getitem(prey_pool, name), draw)
       IN  /\ pred_pool' = setitem(pred_pool, "p", r.spec)
           /\ prey_pool' = setitem(prey_pool, name, r.prey)
           /\ last' = [op |-> "encounter", i |-> i, name |-> name,
                       ok |-> r.ok, drew |-> r.drew,
                       chance |-> pursuit_chance(TheSpec, i, getitem(prey_pool, name))]
    /\ ncalls' = ncalls + 1
    /\ RunFrame

CallReset ==
    /\ ncalls < MaxCalls
    /\ pred_pool' = setitem(pred_pool, "p", PredatorSpecies_reset(TheSpec))
    /\ last' = [op |-> "reset"]
    /\ ncalls' = ncalls + 1
    /\ UNCHANGED prey_pool /\ RunFrame

PredNext ==
    \/ \E i \in 0..(Len(TheSpec.lst) - 1), name \in NameSet(prey_pool) :
          CallEat(i, name)
    \/ \E i \in 0..(Len(TheSpec.lst) - 1), name \in NameSet(prey_pool) :
          \E draw \in encounter_draws(TheSpec, i) :
              CallEncounter(i, name, draw)
    \/ CallReset

PredSpec == PredInit /\ [][PredNext]_vars

\* ------------------------------------------------ claims on PredatorSpecies
Individuals == 0..(Len(TheSpec.lst) - 1)
Window(i, phen) == TheSpec.lst[i + 1].prefs[phen]
Knows(i, phen) == phen \in DOMAIN TheSpec.lst[i + 1].prefs
HasZero(w) == \E k \in 1..Len(w) : w[k] = 0

ValidPrey(obj) ==
    /\ 0 <= obj.camo /\ obj.camo <= Scale
    /\ 0 <= obj.pal /\ obj.pal <= Scale
    /\ obj.size > 0 /\ obj.popu >= 0
AllPreyValid == \A k \in 1..Len(prey_pool) : ValidPrey(prey_pool[k].obj)

\* A preference [prod, root] read as the number (prod ^ (1/root)) / Scale.
PrefIsOne(p) == p.prod = Pow(Scale, p.root)
PrefIsZero(p) == p.prod = 0
PrefIn01(p) == 0 <= p.prod /\ p.prod <= Pow(Scale, p.root)
\* (coef / Scale) * pref within [0, 1].
ChanceIn01(c) ==
    /\ c.coef >= 0 \/ c.pref.prod = 0
    /\ c.coef >= 0 =>
          Pow(c.coef, c.pref.root) * c.pref.prod <= Pow(Scale * Scale, c.pref.root)

\* C3: an encounter of an individual whose cumulative eaten amount is >= the
\* appetite returns failure, draws no random number and changes neither the
\* predator species (histories, eaten counters) nor the prey, whatever the prey.
C3_SatiatedEncounterIsNoOp ==
    [][(/\ ncalls' = ncalls + 1
        /\ last'.op = "encounter"
        /\ TheSpec.lst[last'.i + 1].prey_eaten >= TheSpec.app)
       => (/\ ~last'.ok
           /\ ~last'.drew
           /\ pred_pool' = pred_pool
           /\ prey_pool' = prey_pool)]_vars

\* A satiated individual that got there by eating has just been encountered.
C3_Witness ==
    /\ last.op = "encounter"
    /\ ~last.drew
    /\ TheSpec.app > 0
    /\ TheSpec.lst[last.i + 1].prey_eaten >= TheSpec.app

\* C4: every phenotype history of every individual has length at most mem,
\* for every mem the setter accepts (shown with prey inside the valid ranges).
C4_HistoryAtMostMem ==
    AllPreyValid =>
    \A i \in Individuals : \A phen \in DOMAIN TheSpec.lst[i + 1].prefs :
        Len(Window(i, phen)) <= TheSpec.mem

\* C6: get_pref is 1 without a history entry, 1 for an empty entry, and 0
\* whenever the window holds a 0 at any position.
C6_PrefOneOrZero ==
    \A i \in Individuals : \A phen \in {"x", "y", "z"} :
        /\ ~Knows(i, phen) => PrefIsOne(get_pref(TheSpec, i, phen))
        /\ (Knows(i, phen) /\ Window(i, phen) = <<>>)
              => PrefIsOne(get_pref(TheSpec, i, phen))
        /\ (Knows(i, phen) /\ HasZero(Window(i, phen)))
              => PrefIsZero(get_pref(TheSpec, i, phen))

\* A window with a 0 that is not its most recent value, next to a phenotype
\* without entry.
C6_Witness ==
    \E i \in Individuals :
        /\ Knows(i, "x")
        /\ Len(Window(i, "x")) >= 2
        /\ Window(i, "x")[1] = 0
        /\ Window(i, "x")[Len(Window(i, "x"))] > 0
        /\ ~Knows(i, "y")

\* C7: for a non-empty window without 0, get_pref is the geometric mean of
\* the window followed by one repeat of its last element: the (n+1)-th root
\* of (product of the window) * (last element).
C7_PrefIsGeometricMean ==
    \A i \in Individuals : \A phen \in DOMAIN TheSpec.lst[i + 1].prefs :
        LET w == Window(i, phen)
        IN  (w # <<>> /\ ~HasZero(w)) =>
                /\ get_pref(TheSpec, i, phen).root = Len(w) + 1
                /\ get_pref(TheSpec, i, phen).prod = ProdSeq(w) * w[Len(w)]

\* A window of three values, not all equal, ending in its smallest.
C7_Witness ==
    \E i \in Individuals :
        /\ Knows(i, "x")
        /\ Window(i, "x") = <<Scale, Scale, 1>>

\* w is the tail of s: s with some of its oldest values dropped.
IsSuffix(w, s) ==
    /\ Len(w) <= Len(s)
    /\ \A k \in 1..Len(w) : w[k] = s[Len(s) - Len(w) + k]

WindowOrEmpty(i, phen) == IF Knows(i, phen) THEN Window(i, phen) ELSE <<>>

\* The call just made was an eat of phenotype phen by individual i, directly
\* or through a successful encounter.
AteJustNow(i, phen) ==
    /\ last'.op = "eat" \/ (last'.op = "encounter" /\ last'.ok)
    /\ last'.i = i
    /\ getitem(prey_pool, last'.name).phen = phen

\* C8: as long as a window holds a 0, get_pref of that phenotype is 0; an
\* eat of that phenotype by that individual appends the palatability and
\* drops values from the old end only (so a 0 leaves only by being pushed
\* out), the reset empties the window, and no other call changes it.
C8_ZeroStaysUntilPushedOut ==
    [][\A i \in Individuals : \A phen \in {"x", "y"} :
          /\ HasZero(WindowOrEmpty(i, phen)')
                => PrefIsZero(get_pref(TheSpec', i, phen))
          /\ IF AteJustNow(i, phen)
             THEN /\ WindowOrEmpty(i, phen)' # <<>>
                  /\ IsSuffix(WindowOrEmpty(i, phen)',
                              Append(WindowOrEmpty(i, phen),
                                     getitem(prey_pool, last'.name).pal))
             ELSE IF last'.op = "reset"
             THEN WindowOrEmpty(i, phen)' = <<>>
             ELSE WindowOrEmpty(i, phen)' = WindowOrEmpty(i, phen)]_vars

\* With a memory of one, an individual has eaten the unpalatable "a" and then
\* its mimic "b": the 0 was recorded and has been pushed out.
C8_Witness ==
    /\ TheSpec.mem = 1
    /\ getitem(prey_pool, "a").pal = 0
    /\ getitem(prey_pool, "b").phen = "x"
    /\ \E i \in Individuals :
          /\ Knows(i, "x")
          /\ Window(i, "x") = <<1>>
          /\ TheSpec.lst[i + 1].prey_eaten = 3

\* C9: for every constructible Prey and every reachable predator state,
\* get_pref lies in [0, 1] and the pursuit probability computed by encounter
\* lies in [0, 1].
C9_PrefAndChanceIn01 ==
    /\ \A i \in Individuals : \A phen \in DOMAIN TheSpec.lst[i + 1].prefs :
          PrefIn01(get_pref(TheSpec, i, phen))
    /\ (last.op = "encounter" /\ last.drew) => ChanceIn01(last.chance)

\* ================================================== the pools called directly
\* A caller that builds a PreyPool and a PredatorPool, changes populations
\* through the Prey.popu setter, feeds hungry predators, and calls select in
\* every mode.

PoolInit ==
    /\ \E present \in SUBSET {"a", "b"} : \E pa \in 0..MaxPopu, pb \in 0..MaxPopu :
       \E np \in 0..2, nq \in 0..2 :
          \* either pool is varied while the other is a fixed small one
          /\ (np = 1 /\ nq = 0) \/ (present = {"a"} /\ pa = 1)
          /\ prey_pool =
                (IF "a" \in present
                 THEN <<[name |-> "a", obj |-> Prey(pa, "x", 1, 0, Scale)]>>
                 ELSE <<>>)
                \o (IF "b" \in present
                    THEN <<[name |-> "b", obj |-> Prey(pb, "y", 1, 0, Scale)]>>
                    ELSE <<>>)
          /\ pred_pool =
                <<[name |-> "p",
                   obj |-> PredatorSpecies(np, prey_pool, 1, maxsize, TRUE)],
                  [name |-> "q",
                   obj |-> PredatorSpecies(nq, prey_pool, 1, maxsize, TRUE)]>>
    /\ sim = [title |-> "unit"]
    /\ pc = "unit"
    /\ trial = 0 /\ gen = 0 /\ left = 0
    /\ prey_pool_current = <<>> /\ pred_pool_current = <<>>
    /\ out = NoCall
    /\ last = NoCall
    /\ ncalls = 0

\* Prey.popu setter: any int >= 0.
SetPopu(name, value) ==
    /\ value >= 0
    /\ prey_pool' = setitem(prey_pool, name,
                            [getitem(prey_pool, name) EXCEPT !.popu = value])
    /\ last' = [op |-> "set_popu", name |-> name]
    /\ UNCHANGED <<pred_pool, ncalls>> /\ RunFrame

CallPoolEat(pred_name, i, prey_name) ==
    /\ ncalls < MaxCalls
    /\ hungry(getitem(pred_pool, pred_name), i)
    /\ pred_pool' = setitem(pred_pool, pred_name,
                            eat(getitem(pred_pool, pred_name), i,
                                getitem(prey_pool, prey_name)))
    /\ last' = [op |-> "eat", name |-> pred_name, i |-> i]
    /\ ncalls' = ncalls + 1
    /\ UNCHANGED prey_pool /\ RunFrame

CallPreySelect(surviving_only, idx) ==
    /\ last' = [op |-> "prey_select", mode |-> surviving_only, idx |-> idx,
                res |-> PreyPool_select(prey_pool, surviving_only, idx)]
    /\ UNCHANGED <<prey_pool, pred_pool, ncalls>> /\ RunFrame

CallPredSelect(hungry_only, idx) ==
    /\ last' = [op |-> "pred_select", mode |-> hungry_only, idx |-> idx,
                res |-> PredatorPool_select(pred_pool, hungry_only, idx)]
    /\ UNCHANGED <<prey_pool, pred_pool, ncalls>> /\ RunFrame

\* Integer targets a caller passes to repopulate.
TargetAny == 0..(2 * MaxPopu)

\* PreyPool.repopulate(popu_target) with an int (int(popu_target) is that
\* int) when given, PreyPool.repopulate() otherwise.
CallRepopulate(given, popu_target) ==
    /\ prey_pool' = IF given THEN PreyPool_repopulate(prey_pool, popu_target)
                    ELSE PreyPool_repopulate_default(prey_pool)
    /\ last' = [op |-> "repopulate", given |-> given, target |-> popu_target]
    /\ UNCHANGED <<pred_pool, ncalls>> /\ RunFrame

PoolNext ==
    \/ \E name \in NameSet(prey_pool), value \in 0..(MaxPopu + 1) :
          SetPopu(name, value)
    \/ \E given \in BOOLEAN, popu_target \in TargetAny :
          /\ ~given => popu_target = 0
          /\ CallRepopulate(given, popu_target)
    \/ \E pred_name \in NameSet(pred_pool), prey_name \in NameSet(prey_pool) :
          \E i \in 0..(Len(getitem(pred_pool, pred_name).lst) - 1) :
              CallPoolEat(pred_name, i, prey_name)
    \/ \E surviving_only \in BOOLEAN :
          \E idx \in PreyPool_draws(prey_pool, surviving_only) :
              CallPreySelect(surviving_only, idx)
    \/ \E hungry_only \in BOOLEAN :
          \E idx \in PredatorPool_draws(pred_pool, hungry_only) :
              CallPredSelect(hungry_only, idx)

PoolSpec == PoolInit /\ [][PoolNext]_vars

\* ------------------------------------------------------- claims on the pools
\* The position k whose span of counts contains idx:
\* counts[1] + ... + counts[k-1] <= idx < counts[1] + ... + counts[k].
SpanIndex(counts, idx) ==
    CHOOSE k \in 1..Len(counts) :
        /\ SumSeq(SubSeq(counts, 1, k - 1)) <= idx
        /\ idx < SumSeq(SubSeq(counts, 1, k))

PreyCounts(surviving_only) ==
    [k \in 1..Len(prey_pool) |->
        IF surviving_only THEN prey_pool[k].obj.popu
        ELSE prey_pool[k].obj.popu_orig]

PredCounts(hungry_only) ==
    [k \in 1..Len(pred_pool) |->
        IF hungry_only
        THEN Cardinality({j \in 1..Len(pred_pool[k].obj.lst) :
                            pred_pool[k].obj.lst[j].prey_eaten < pred_pool[k].obj.app})
        ELSE Len(pred_pool[k].obj.lst)]

\* C10: in every counting mode, when the eligible total T of that mode is > 0,
\* every index in [0, T) makes select return the entry (in name order) whose
\* span of eligible counts in that mode contains the index; the sentinel is
\* returned only when T = 0.
C10_SelectReturnsSpanEntry ==
    /\ last.op = "prey_select" =>
          LET counts == PreyCounts(last.mode)
          IN  /\ SumSeq(counts) > 0 =>
                    last.res = prey_pool[SpanIndex(counts, last.idx)].name
              /\ last.res = None => SumSeq(counts) = 0
    /\ last.op = "pred_select" =>
          LET counts == PredCounts(last.mode)
          IN  /\ SumSeq(counts) > 0 =>
                    last.res[1] = pred_pool[SpanIndex(counts, last.idx)].name
              /\ last.res[1] = None => SumSeq(counts) = 0

\* ---------------------------------------------------------- claims on the run
\* Surviving prey total and number of hungry predators of one_gen's pools,
\* read off the fields.
Surviving == SumSeq(PreyCounts(TRUE))
HungryCount == SumSeq(PredCounts(TRUE))

\* A step of one_gen's loop that runs a draw-resolve cycle.
CycleStep == pc = "loop" /\ pc' \in {"loop", "raised"}

PopusOf(pool) == {pool[k].obj.popu : k \in 1..Len(pool)}

\* C1: in every state of a run every prey population (in one_gen's pool, in
\* the pool carried between generations, in the record handed out) is a
\* non-negative integer, and the decrement after a successful encounter is
\* applied only to a species whose population is at least 1.
C1_PopulationNeverNegative ==
    /\ [](/\ pc # "raised"
          /\ PopusOf(prey_pool) \subseteq Nat
          /\ PopusOf(prey_pool_current) \subseteq Nat
          /\ out # NoCall => PopusOf(out.prey_pool) \subseteq Nat)
    /\ [][(CycleStep /\ last'.ok)
            => /\ getitem(prey_pool, last'.prey).popu >= 1
               /\ getitem(prey_pool', last'.prey).popu
                     = getitem(prey_pool, last'.prey).popu - 1]_vars

\* A successful encounter has just taken the last animal of a species.
C1_Witness ==
    /\ pc = "loop"
    /\ last.op = "cycle"
    /\ last.ok
    /\ getitem(prey_pool, last.prey).popu = 0
    /\ getitem(prey_pool, last.prey).popu_orig > 0

\* C2: a generation starts with a budget of `encounters`, every cycle takes
\* one unit of it and none is run without budget, no cycle is run when the
\* surviving prey total or the number of hungry predators is 0, and in such
\* a state the loop is left at once.
C2_AtMostEncountersAndEarlyStop ==
    [][/\ (pc # "loop" /\ pc' = "loop") => left' = sim.encounters
       /\ CycleStep => /\ left > 0
                       /\ pc' = "loop" => left' = left - 1
                       /\ Surviving > 0
                       /\ HungryCount > 0
       /\ (pc = "loop" /\ (Surviving = 0 \/ HungryCount = 0)) => pc' # "loop"]_vars

\* The loop was left with budget remaining, after a cycle of this generation
\* had satiated the last hungry predator while prey survive.
C2_Witness ==
    /\ pc = "return"
    /\ left > 0
    /\ last.op = "cycle"
    /\ last.ok
    /\ HungryCount = 0
    /\ Surviving > 0

\* C5: while a generation runs, a species with camouflage 1 keeps the
\* population it started the generation with, and no cycle that selected it
\* ends in predation.
C5_FullCamouflageNeverEaten ==
    pc = "loop" =>
        \A k \in 1..Len(prey_pool) :
            prey_pool[k].obj.camo = Scale =>
                /\ prey_pool[k].obj.popu = prey_pool_current[k].obj.popu
                /\ (last.op = "cycle" /\ last.prey = prey_pool[k].name) => ~last.ok

\* Eligible totals of a pool in a counting mode, read off the fields.
PreyTotal(pool, surviving_only) ==
    SumSeq([k \in 1..Len(pool) |->
               IF surviving_only THEN pool[k].obj.popu ELSE pool[k].obj.popu_orig])
PredTotal(pool, hungry_only) ==
    SumSeq([k \in 1..Len(pool) |->
               IF hungry_only
               THEN Cardinality({j \in 1..Len(pool[k].obj.lst) :
                                   pool[k].obj.lst[j].prey_eaten < pool[k].obj.app})
               ELSE Len(pool[k].obj.lst)])

\* C11: on every pool a run goes through (empty, extinct, without hungry
\* predator), select in a mode whose eligible total is 0 returns the
\* sentinel without drawing; the run never raises; and a loop state with an
\* empty or exhausted pool is left at once, with no draw and the pools as
\* they were.
C11_ZeroTotalIsSentinelNotError ==
    /\ [](/\ pc # "raised"
          /\ \A pool \in {prey_pool, prey_pool_current} : \A mode \in BOOLEAN :
                PreyTotal(pool, mode) = 0 =>
                    /\ PreyPool_draws(pool, mode) = {NoDraw}
                    /\ PreyPool_select(pool, mode, NoDraw) = None
          /\ \A pool \in {pred_pool, pred_pool_current} : \A mode \in BOOLEAN :
                PredTotal(pool, mode) = 0 =>
                    /\ PredatorPool_draws(pool, mode) = {NoDraw}
                    /\ PredatorPool_select(pool, mode, NoDraw) = <<None, None>>)
    /\ [][(pc = "loop" /\ left > 0
              /\ (PreyTotal(prey_pool, TRUE) = 0 \/ PredTotal(pred_pool, TRUE) = 0))
            => /\ pc' = "return"
               /\ UNCHANGED <<prey_pool, pred_pool, last, left>>]_vars

\* A generation over an empty predator pool (prey present) has just ended
\* through the break, its whole budget unused.
C11_Witness ==
    /\ pc = "return"
    /\ pred_pool = <<>>
    /\ PreyTotal(prey_pool, TRUE) > 0
    /\ left = sim.encounters

\* n is round(num / den) for den > 0: the integer nearest to the quotient,
\* the even one of the two when the quotient lies halfway.
IsRounded(n, num, den) ==
    /\ 2 * (n * den - num) <= den
    /\ 2 * (num - n * den) <= den
    /\ (2 * (n * den - num) = den \/ 2 * (num - n * den) = den) => n % 2 = 0

\* C12: repopulate sets each species to round(popu / surviving total *
\* target) when the surviving total is > 0, the target being the sum of the
\* original populations when none is given; it sets every species to 0 when
\* the surviving total is 0; it changes nothing but the populations.
C12_RepopulateRoundsShares ==
    [][last'.op = "repopulate" =>
          LET total == PreyTotal(prey_pool, TRUE)
              target == IF last'.given THEN last'.target
                        ELSE PreyTotal(prey_pool, FALSE)
          IN  /\ Len(prey_pool') = Len(prey_pool)
              /\ \A k \in 1..Len(prey_pool) :
                    /\ prey_pool'[k] = [prey_pool[k] EXCEPT !.obj.popu = prey_pool'[k].obj.popu]
                    /\ prey_pool'[k].obj.popu \in Nat
                    /\ total = 0 => prey_pool'[k].obj.popu = 0
                    /\ total > 0 =>
                          IsRounded(prey_pool'[k].obj.popu,
                                    prey_pool[k].obj.popu * target, total)]_vars

\* A repopulation to an explicit target whose rounded shares do not add up
\* to the target.
C12_Witness ==
    /\ last.op = "repopulate"
    /\ last.given
    /\ Len(prey_pool) = 2
    /\ PreyTotal(prey_pool, TRUE) > last.target
    /\ last.target > 0

Popus(pool) == [k \in 1..Len(pool) |-> pool[k].obj.popu]

\* C13 as stated: when a generation of a verbose run with repopulate ends
\* with the populations it started with (no prey eaten), the repopulation
\* that follows leaves every population as it was.
C13_NoMortalityRepopulateIsIdentity ==
    [][(/\ sim.entry = "all_gens" /\ sim.repopulate
        /\ pc \in {"loop", "return"} /\ pc' = "yielded"
        /\ Popus(prey_pool) = Popus(prey_pool_current))
       => Popus(prey_pool_current') = Popus(prey_pool)]_vars

\* The pool a repopulation of the run starts from, and whether this step
\* repopulates: after one_gen's return when repopulate is set, after the
\* yield of all_gens when it is not, at the start of multi_gen's loop body.
RepopulatesAfterReturn ==
    /\ pc \in {"loop", "return"} /\ pc' = "yielded"
    /\ sim.repopulate
RepopulatesInPlace ==
    \/ pc = "yielded" /\ sim.entry = "all_gens" /\ ~sim.repopulate
    \/ pc = "gen" /\ sim.entry = "multi_gen"

\* Populations after are the rounded shares of the original total, and are
\* the populations before when the surviving total is the original total.
RoundedShares(before, after) ==
    LET total == PreyTotal(before, TRUE)
        target == PreyTotal(before, FALSE)
    IN  /\ Len(after) = Len(before)
        /\ total > 0 =>
              \A k \in 1..Len(before) :
                  IsRounded(after[k].obj.popu, before[k].obj.popu * target, total)
        /\ total = target => Popus(after) = Popus(before)

\* C13, amended: every repopulation of a run sets each species to its
\* rounded share of the original total, which is its population before
\* whenever the surviving total equals the original total (so after a
\* generation without mortality that started from a pool of the original
\* total); otherwise the populations may change.
C13_RepopulateKeepsFullPool ==
    [][/\ RepopulatesAfterReturn => RoundedShares(prey_pool, prey_pool_current')
       /\ RepopulatesInPlace => RoundedShares(prey_pool_current, prey_pool_current')]_vars

\* A generation without predators, hence without mortality, has been
\* repopulated and handed out.
C13_Witness ==
    /\ pc = "yielded"
    /\ sim.entry = "all_gens" /\ sim.repopulate
    /\ gen >= 1
    /\ sim.pred_pool = <<>>
    /\ PreyTotal(prey_pool_current, TRUE) > 0
    /\ Popus(prey_pool_current) = Popus(sim.prey_pool)

\* The prey pool the running trial is working on: one_gen's while a
\* generation runs, the one carried between generations otherwise.
CurrentPrey == IF pc \in {"loop", "return"} THEN prey_pool ELSE prey_pool_current

OrigPopus(pool) == [k \in 1..Len(pool) |-> pool[k].obj.popu_orig]

\* C14: within a trial, once the surviving total is 0 it is 0 from then on,
\* in the pool worked on and in every record handed out, whatever the
\* encounters and repopulations; a new trial starts from the configuration's
\* populations, and so does its first generation.
C14_CollapseIsPermanentWithinTrial ==
    [][/\ (trial' = trial /\ trial >= 1 /\ PreyTotal(CurrentPrey, TRUE) = 0)
            => /\ PreyTotal(CurrentPrey', TRUE) = 0
               /\ out' # NoCall => PreyTotal(out'.prey_pool, TRUE) = 0
       /\ trial' # trial
            => /\ trial' = trial + 1
               /\ prey_pool_current' = sim.prey_pool
               /\ Popus(prey_pool_current') = OrigPopus(sim.prey_pool)
       /\ (pc = "gen" /\ gen = 0) => Popus(prey_pool') = OrigPopus(sim.prey_pool)]_vars

\* In the last trial, a generation after the first has started on a pool
\* that collapsed earlier in that trial, and was left at once.
C14_Witness ==
    /\ pc = "return"
    /\ trial = sim.repetitions /\ trial >= 2
    /\ gen >= 2
    /\ left = sim.encounters
    /\ PreyTotal(prey_pool, TRUE) = 0
    /\ PreyTotal(prey_pool, FALSE) > 0

\* C15: when the first cycle of a generation of multi_gen or all_gens is
\* about to start, one_gen's predators are those of the configuration:
\* nothing eaten, every phenotype history empty.
C15_PredatorsFreshEachGeneration ==
    (pc = "loop" /\ left = sim.encounters /\ sim.entry \in {"multi_gen", "all_gens"})
        => /\ pred_pool = sim.pred_pool
           /\ \A k \in 1..Len(pred_pool) : \A j \in 1..Len(pred_pool[k].obj.lst) :
                 /\ pred_pool[k].obj.lst[j].prey_eaten = 0
                 /\ \A ph \in DOMAIN pred_pool[k].obj.lst[j].prefs :
                        pred_pool[k].obj.lst[j].prefs[ph] = <<>>

\* A generation after the first is about to start its first cycle, on a
\* prey pool that shows the predation of an earlier generation.
C15_Witness ==
    /\ pc = "loop"
    /\ left = sim.encounters /\ left > 0
    /\ gen >= 2
    /\ sim.entry = "multi_gen"
    /\ pred_pool # <<>>
    /\ Popus(prey_pool) # OrigPopus(prey_pool)

\* A step that hands a record out.
Emits == pc # "yielded" /\ pc' = "yielded"

\* C16: in verbose mode the records of a trial carry the generation indices
\* in increasing order without gap or repeat: the trial starts with record 0
\* iff repopulate is set, that record is handed out before any encounter and
\* carries the configuration's prey; every generation run hands out exactly
\* one record, with the next index; the trial ends after the record of
\* index `generations` and not before.
C16_VerboseRecordsInOrder ==
    [][sim.entry = "all_gens" =>
          /\ Emits => (out'.gen = gen' /\ out'.trial = trial')
          /\ trial' # trial
                => /\ gen' = 0 /\ last' = NoCall
                   /\ IF sim.repopulate
                      THEN /\ Emits
                           /\ out' = Record(trial', 0, sim.prey_pool, sim.pred_pool)
                           /\ Popus(out'.prey_pool) = OrigPopus(sim.prey_pool)
                      ELSE pc' = "gen"
          /\ (trial' = trial /\ gen' # gen)
                => (pc = "gen" /\ pc' = "loop" /\ gen' = gen + 1
                    /\ gen' <= sim.generations)
          /\ (pc = "loop" /\ pc' # "loop") => pc' \in {"return", "yielded"}
          /\ pc = "return" => Emits
          /\ pc = "yielded"
                => pc' = IF gen < sim.generations THEN "gen" ELSE "trial_end"]_vars

\* A verbose trial with repopulate has handed out its last record, of index
\* `generations`, and is over.
C16_Witness ==
    /\ pc = "trial_end"
    /\ sim.entry = "all_gens" /\ sim.repopulate
    /\ gen = sim.generations /\ gen >= 2
    /\ out.gen = gen
    /\ out.trial = trial

\* after is before repopulated to the original total: rounded shares, or
\* all 0 when nothing survives; nothing else differs.
IsRepopulated(before, after) ==
    /\ RoundedShares(before, after)
    /\ \A k \in 1..Len(before) :
          /\ after[k] = [before[k] EXCEPT !.obj.popu = after[k].obj.popu]
          /\ PreyTotal(before, TRUE) = 0 => after[k].obj.popu = 0

\* C17: in verbose mode without repopulate, the record of generation g
\* carries one_gen's pool as returned, the repopulation happens when the
\* run is resumed, and the next generation starts from the repopulated
\* pool; with repopulate, the record of generation g >= 1 carries the
\* repopulated pool and the next generation starts from that very pool.
C17_RecordThenRepopulateOrReverse ==
    [][sim.entry = "all_gens" =>
          /\ (Emits /\ gen' >= 1)
                => /\ out'.gen = gen
                   /\ IF sim.repopulate
                      THEN IsRepopulated(prey_pool, out'.prey_pool)
                      ELSE out'.prey_pool = prey_pool
                   /\ prey_pool_current' = out'.prey_pool
          /\ pc = "yielded"
                => IF sim.repopulate
                   THEN prey_pool_current' = out.prey_pool
                   ELSE IsRepopulated(out.prey_pool, prey_pool_current')
          /\ pc = "gen"
                => (prey_pool' = prey_pool_current /\ UNCHANGED prey_pool_current)]_vars

\* Without repopulate, the record just handed out shows the mortality of
\* its generation: fewer prey than the original total.
C17_Witness ==
    /\ pc = "yielded"
    /\ sim.entry = "all_gens" /\ ~sim.repopulate
    /\ gen >= 1
    /\ PreyTotal(out.prey_pool, TRUE) > 0
    /\ PreyTotal(out.prey_pool, TRUE) < PreyTotal(out.prey_pool, FALSE)

\* C18: in terse mode a trial hands out nothing until its last generation
\* has run, then exactly one record, numbered with the trial and generation
\* 1, carrying one_gen's final pool (repopulated iff repopulate is set);
\* trials are numbered 1, 2, ... and the run ends after trial `repetitions`.
C18_TerseOneRecordPerTrial ==
    [][sim.entry = "multi_gen" =>
          /\ Emits
                => /\ pc \in {"loop", "return"}
                   /\ gen = sim.generations
                   /\ out'.trial = trial /\ out'.gen = 1
                   /\ IF sim.repopulate
                      THEN IsRepopulated(prey_pool, out'.prey_pool)
                      ELSE out'.prey_pool = prey_pool
          /\ (pc \in {"loop", "return"} /\ pc' \notin {"loop", "return"})
                => IF gen < sim.generations THEN pc' = "gen" /\ out' = NoCall
                   ELSE Emits
          /\ pc = "yielded" => pc' = "trial_end"
          /\ trial' # trial
                => /\ trial' = trial + 1 /\ trial' <= sim.repetitions
                   /\ pc \in {"start", "trial_end"}
                   /\ pc' = "gen" /\ out' = NoCall
          /\ pc' = "done" => trial = sim.repetitions]_vars

\* The last trial of a terse run with repopulate has handed out its record.
C18_Witness ==
    /\ pc = "trial_end"
    /\ sim.entry = "multi_gen" /\ sim.repopulate
    /\ trial = sim.repetitions /\ trial >= 2
    /\ gen = sim.generations /\ gen >= 2
    /\ out.trial = trial /\ out.gen = 1
    /\ PreyTotal(out.prey_pool, TRUE) > 0
    /\ Popus(out.prey_pool) # OrigPopus(out.prey_pool)

\* The configuration's pools as built: every prey species at its original
\* population, every predator with nothing eaten and empty histories.
SimAsBuilt ==
    /\ Popus(sim.prey_pool) = OrigPopus(sim.prey_pool)
    /\ \A k \in 1..Len(sim.pred_pool) : \A j \in 1..Len(sim.pred_pool[k].obj.lst) :
          /\ sim.pred_pool[k].obj.lst[j].prey_eaten = 0
          /\ \A ph \in DOMAIN sim.pred_pool[k].obj.lst[j].prefs :
                 sim.pred_pool[k].obj.lst[j].prefs[ph] = <<>>

\* C19: no step of one_gen, multi_gen, all_gens or run_raw changes the pools
\* held by the Simulation, which stay as built at every point of a run, and
\* every trial starts from them.
C19_RunLeavesConfigurationAlone ==
    /\ []SimAsBuilt
    /\ [][/\ sim' = sim
           /\ trial' # trial => (/\ prey_pool_current' = sim.prey_pool
                                 /\ pred_pool_current' = sim.pred_pool)]_vars

\* A run is over whose last trial ended with prey eaten and predators fed.
C19_Witness ==
    /\ pc = "done"
    /\ prey_pool_current # <<>> /\ pred_pool_current # <<>>
    /\ Popus(prey_pool_current) # Popus(sim.prey_pool)
    /\ pred_pool_current # sim.pred_pool
    /\ sim.entry = "multi_gen"
    /\ trial >= 2

\* A step of the run that makes no random call.
StepWithoutDraw == StartTrial \/ BeginGen \/ Break \/ Return \/ Resume \/ Finish

Verbose == sim.entry = "all_gens"

\* C21: in verbose mode the generator runs only on demand. While a record
\* is with the consumer (the generator is suspended at its yield) the record
\* is that of the last generation run in this trial, one_gen has no frame,
\* and the only thing that can happen is the consumer asking for the next
\* record, which resolves no encounter and starts no generation by itself;
\* a generation starts only from the running generator, one at a time.
C21_VerboseIsLazy ==
    /\ [](Verbose /\ pc = "yielded"
            => /\ out.trial = trial /\ out.gen = gen
               /\ gen <= sim.generations
               /\ left = 0 /\ prey_pool = <<>> /\ pred_pool = <<>>)
    /\ [][Verbose =>
            /\ pc = "yielded"
                  => /\ pc' \in {"gen", "trial_end"}
                     /\ gen' = gen /\ trial' = trial
                     /\ last' = last /\ left' = left
                     /\ prey_pool' = prey_pool /\ pred_pool' = pred_pool
            /\ CycleStep => (pc # "yielded" /\ out = NoCall /\ gen' = gen)
            /\ gen' # gen
                  => \/ pc = "gen" /\ gen' = gen + 1
                     \/ pc \in {"start", "trial_end"} /\ gen' = 0]_vars

\* The consumer holds the record of generation 1 of a run of several
\* generations in which prey and hungry predators remain: generation 2 has
\* not begun.
C21_Witness ==
    /\ Verbose
    /\ pc = "yielded"
    /\ out.gen = 1 /\ gen = 1
    /\ sim.generations > 1
    /\ PreyPool_popu(prey_pool_current, TRUE) > 0
    /\ PredatorPool_popu(sim.pred_pool, TRUE) > 0

\* ------------------------------------------------------------------- C22
\* C22: no object holding an invalid value exists: every Prey has its
\* camouflage and palatability in [0,1], a positive size, a non-negative
\* population and a non-empty phenotype, and the PredatorSpecies has a
\* non-negative appetite and memory.
C22_ConstructionValidates ==
    /\ \A k \in 1..Len(prey_pool) :
          /\ ValidPrey(prey_pool[k].obj)
          /\ prey_pool[k].obj.phen # ""
    /\ TheSpec.app >= 0
    /\ TheSpec.mem >= 0

\* ================================================= the pools edited directly
\* A caller that starts from PreyPool() and PredatorPool() and calls add,
\* remove, replace, clear, pool[name] and popu(name) in any order.

\* The species names the caller uses, in the order of Python's str
\* comparison.
NameOrder == <<"a", "b", "c">>
Rank(name) == CHOOSE k \in 1..Len(NameOrder) : NameOrder[k] = name

\* No exception.
Returned == "returned"

\* OrderedDict.move_to_end(name).
move_to_end(pool, name) ==
    SubSeq(pool, 1, IndexOf(pool, name) - 1)
        \o SubSeq(pool, IndexOf(pool, name) + 1, Len(pool))
        \o <<pool[IndexOf(pool, name)]>>

\* for name in self.names: if name > key: self._dict.move_to_end(name),
\* over the list self.names returned before the loop.
RECURSIVE MoveGreater(_, _, _)
MoveGreater(pool, snapshot, key) ==
    IF snapshot = <<>> THEN pool
    ELSE MoveGreater(IF Rank(Head(snapshot)) > Rank(key)
                     THEN move_to_end(pool, Head(snapshot))
                     ELSE pool,
                     Tail(snapshot), key)

\* self._dict[key] = value: a new key goes to the end, a present key keeps
\* its place.
dict_set(pool, key, value) ==
    IF key \in NameSet(pool) THEN setitem(pool, key, value)
    ELSE Append(pool, [name |-> key, obj |-> value])

\* isinstance(value, Prey) / isinstance(value, PredatorSpecies).
IsPrey(value) == "popu_orig" \in DOMAIN value
IsPredatorSpecies(value) == "lst" \in DOMAIN value

\* Mutant of PreyPool_setitem: the new key stays at the end.
PreyPool_setitem_unsorted(pool, key, value) ==
    IF ~IsPrey(value) THEN [raised |-> "TypeError", pool |-> pool]
    ELSE IF key \in NameSet(pool)
    THEN [raised |-> "AssertionError", pool |-> pool]
    ELSE [raised |-> Returned, pool |-> dict_set(pool, key, value)]

\* Mutant of PreyPool_setitem: no assert.
PreyPool_setitem_unchecked(pool, key, value) ==
    IF ~IsPrey(value) THEN [raised |-> "TypeError", pool |-> pool]
    ELSE [raised |-> Returned,
          pool |-> MoveGreater(dict_set(pool, key, value),
                               names(dict_set(pool, key, value)), key)]

\* PreyPool.__setitem__ with a str key: a value that is no Prey is refused
\* first.
PreyPool_setitem(pool, key, value) ==
    IF ~IsPrey(value) THEN [raised |-> "TypeError", pool |-> pool]
    ELSE IF key \in NameSet(pool)
    THEN [raised |-> "AssertionError", pool |-> pool]
    ELSE [raised |-> Returned,
          pool |-> MoveGreater(dict_set(pool, key, value),
                               names(dict_set(pool, key, value)), key)]

\* PreyPool.__delitem__ with a str key: del self._dict[key].
PreyPool_delitem(pool, key) ==
    IF key \notin NameSet(pool) THEN [raised |-> "KeyError", pool |-> pool]
    ELSE [raised |-> Returned,
          pool |-> SelectSeq(pool, LAMBDA e : e.name # key)]

\* PreyPool.replace: remove unless forced and absent, then add.
PreyPool_replace(pool, spec_name, prey_spec, force) ==
    IF (~force) \/ spec_name \in NameSet(pool)
    THEN IF PreyPool_delitem(pool, spec_name).raised # Returned
         THEN PreyPool_delitem(pool, spec_name)
         ELSE PreyPool_setitem(PreyPool_delitem(pool, spec_name).pool,
                               spec_name, prey_spec)
    ELSE PreyPool_setitem(pool, spec_name, prey_spec)

\* PreyPool.clear / PredatorPool.clear.
clear(pool) == <<>>

\* PreyPool.__getitem__ with a str: the exception raised, if any.
PreyPool_getitem(pool, item) ==
    IF item \notin NameSet(pool) THEN "KeyError" ELSE Returned

\* PredatorPool.__setitem__ with a str key: a value that is no
\* PredatorSpecies is refused first.
PredatorPool_setitem(pool, key, value) ==
    IF ~IsPredatorSpecies(value) THEN [raised |-> "TypeError", pool |-> pool]
    ELSE IF key \in NameSet(pool)
    THEN [raised |-> "AssertionError", pool |-> pool]
    ELSE [raised |-> Returned,
          pool |-> MoveGreater(dict_set(pool, key, value),
                               names(dict_set(pool, key, value)), key)]

\* PredatorPool.__delitem__ with a str key.
PredatorPool_delitem(pool, key) ==
    IF key \notin NameSet(pool) THEN [raised |-> "KeyError", pool |-> pool]
    ELSE [raised |-> Returned,
          pool |-> SelectSeq(pool, LAMBDA e : e.name # key)]

\* PredatorPool.replace.
PredatorPool_replace(pool, spec_name, pred_spec, force) ==
    IF ~force
    THEN IF PredatorPool_delitem(pool, spec_name).raised # Returned
         THEN PredatorPool_delitem(pool, spec_name)
         ELSE PredatorPool_setitem(PredatorPool_delitem(pool, spec_name).pool,
                                   spec_name, pred_spec)
    ELSE IF spec_name \in NameSet(pool)
    THEN PredatorPool_setitem(PredatorPool_delitem(pool, spec_name).pool,
                              spec_name, pred_spec)
    ELSE PredatorPool_setitem(pool, spec_name, pred_spec)

\* PredatorPool.__getitem__ with a str: the exception raised, if any.
PredatorPool_getitem(pool, item) ==
    IF item \notin NameSet(pool) THEN "ValueError" ELSE Returned

\* The objects the caller puts into the pools.
PreyObjects == {Prey(1, "x", 1, 0, Scale), Prey(2, "y", 1, 0, Scale)}
PredObjects == {PredatorSpecies(1, <<>>, 1, maxsize, TRUE),
                PredatorSpecies(2, <<>>, 1, maxsize, TRUE)}
Kinds == {"prey", "pred"}
NameAny == {NameOrder[k] : k \in 1..Len(NameOrder)}

EditInit ==
    /\ prey_pool = <<>>
    /\ pred_pool = <<>>
    /\ sim = [title |-> "unit"]
    /\ pc = "unit"
    /\ trial = 0 /\ gen = 0 /\ left = 0
    /\ prey_pool_current = <<>> /\ pred_pool_current = <<>>
    /\ out = NoCall
    /\ last = NoCall
    /\ ncalls = 0

\* What a call leaves behind: the pool of that kind, and what the caller saw.
Called(op, kind, name, res, number) ==
    /\ IF kind = "prey"
       THEN prey_pool' = res.pool /\ pred_pool' = pred_pool
       ELSE pred_pool' = res.pool /\ prey_pool' = prey_pool
    /\ last' = [op |-> op, kind |-> kind, name |-> name,
                present |-> name \in NameSet(IF kind = "prey" THEN prey_pool
                                             ELSE pred_pool),
                raised |-> res.raised, number |-> number]

\* pool.add(spec_name, obj): self[spec_name] = obj.
CallAdd(kind, name, k) ==
    /\ Called("add", kind, name,
              IF kind = "prey"
              THEN PreyPool_setitem(prey_pool, name,
                                    CHOOSE o \in PreyObjects : o.popu = k)
              ELSE PredatorPool_setitem(pred_pool, name,
                                        CHOOSE o \in PredObjects : Len(o.lst) = k),
              NoDraw)
    /\ UNCHANGED ncalls /\ RunFrame

\* pool.remove(spec_name): del self[spec_name].
CallRemove(kind, name) ==
    /\ Called("remove", kind, name,
              IF kind = "prey" THEN PreyPool_delitem(prey_pool, name)
              ELSE PredatorPool_delitem(pred_pool, name),
              NoDraw)
    /\ UNCHANGED ncalls /\ RunFrame

\* pool.replace(spec_name, obj, force).
CallReplace(kind, name, k, force) ==
    /\ Called(IF force THEN "replace_forced" ELSE "replace", kind, name,
              IF kind = "prey"
              THEN PreyPool_replace(prey_pool, name,
                                    CHOOSE o \in PreyObjects : o.popu = k, force)
              ELSE PredatorPool_replace(pred_pool, name,
                                        CHOOSE o \in PredObjects : Len(o.lst) = k,
                                        force),
              NoDraw)
    /\ UNCHANGED ncalls /\ RunFrame

\* pool.replace(spec_name, obj, force) with an object of the other pool's
\* class.
CallReplaceWrongClass(kind, name, force) ==
    /\ Called(IF force THEN "misreplace_forced" ELSE "misreplace", kind, name,
              IF kind = "prey"
              THEN PreyPool_replace(prey_pool, name,
                                    CHOOSE o \in PredObjects : Len(o.lst) = 1, force)
              ELSE PredatorPool_replace(pred_pool, name,
                                        CHOOSE o \in PreyObjects : o.popu = 1,
                                        force),
              NoDraw)
    /\ UNCHANGED ncalls /\ RunFrame

\* pool.clear().
CallClear(kind) ==
    /\ Called("clear", kind, None,
              [raised |-> Returned,
               pool |-> clear(IF kind = "prey" THEN prey_pool ELSE pred_pool)],
              NoDraw)
    /\ UNCHANGED ncalls /\ RunFrame

\* pool[name].
CallGetitem(kind, name) ==
    /\ Called("getitem", kind, name,
              IF kind = "prey"
              THEN [raised |-> PreyPool_getitem(prey_pool, name), pool |-> prey_pool]
              ELSE [raised |-> PredatorPool_getitem(pred_pool, name),
                    pool |-> pred_pool],
              NoDraw)
    /\ UNCHANGED ncalls /\ RunFrame

\* pool.popu(name) in either counting mode: the number returned.
CallPopuOf(kind, name, mode) ==
    /\ Called("popu", kind, name,
              [raised |-> Returned,
               pool |-> IF kind = "prey" THEN prey_pool ELSE pred_pool],
              IF kind = "prey" THEN PreyPool_popu_of(prey_pool, name, mode)
              ELSE PredatorPool_popu_of(pred_pool, name, mode))
    /\ UNCHANGED ncalls /\ RunFrame

EditNext ==
    \/ \E kind \in Kinds, name \in NameAny, k \in {1, 2} : CallAdd(kind, name, k)
    \/ \E kind \in Kinds, name \in NameAny : CallRemove(kind, name)
    \/ \E kind \in Kinds, name \in NameAny, k \in {1, 2}, force \in BOOLEAN :
          CallReplace(kind, name, k, force)
    \/ \E kind \in Kinds, name \in NameAny, force \in BOOLEAN :
          CallReplaceWrongClass(kind, name, force)
    \/ \E kind \in Kinds : CallClear(kind)
    \/ \E kind \in Kinds, name \in NameAny : CallGetitem(kind, name)
    \/ \E kind \in Kinds, name \in NameAny, mode \in BOOLEAN :
          CallPopuOf(kind, name, mode)

EditSpec == EditInit /\ [][EditNext]_vars

\* ------------------------------------------------------------------- C23
Ascending(pool) ==
    \A k \in 1..(Len(pool) - 1) : Rank(pool[k].name) < Rank(pool[k + 1].name)

\* C23: after any sequence of add, remove, replace and clear, both pools
\* list their species in ascending name order.
C23_PoolsStayNameSorted == Ascending(prey_pool) /\ Ascending(pred_pool)

\* A name was added to a pool that held two greater names and now comes
\* first.
C23_Witness ==
    /\ last.op = "add" /\ last.name = "a" /\ last.raised = Returned
    /\ names(IF last.kind = "prey" THEN prey_pool ELSE pred_pool)
          = <<"a", "b", "c">>

\* ------------------------------------------------------------------- C24
PoolOf(kind) == IF kind = "prey" THEN prey_pool ELSE pred_pool

\* C24: add under a name already present raises and leaves both pools as
\* they were; the names of a pool are pairwise distinct.
C24_DuplicateAddFailsUnchanged ==
    /\ [](\A kind \in Kinds :
             Cardinality(NameSet(PoolOf(kind))) = Len(PoolOf(kind)))
    /\ [][(last'.op = "add" /\ last'.present)
             => /\ last'.raised = "AssertionError"
                /\ prey_pool' = prey_pool
                /\ pred_pool' = pred_pool]_vars

\* A species was added under a name bound to a different object, in a pool
\* of two species.
C24_Witness ==
    /\ last.op = "add" /\ last.present
    /\ last.raised = "AssertionError"
    /\ Len(PoolOf(last.kind)) = 2
    /\ last.kind = "prey" => getitem(prey_pool, last.name).popu = 1

\* ------------------------------------------------------------------- C25
\* C25: item lookup, popu(name), remove and non-forced replace given a name
\* that is not in the pool raise a not-found error (KeyError, or ValueError
\* from PredatorPool lookup), return no number, and leave the pools as they
\* were.
C25_MissingNameIsNotFound ==
    [][(last'.op \in {"getitem", "popu", "remove", "replace"} /\ ~last'.present)
          => /\ last'.raised \in {"KeyError", "ValueError"}
             /\ last'.number = NoDraw
             /\ prey_pool' = prey_pool
             /\ pred_pool' = pred_pool]_vars

\* ------------------------------------------------------------------- C26
PhenAny == {"x", "y", "z"}

\* The history of one individual for a phenotype.
HistoryOf(pred, phen) ==
    IF phen \in DOMAIN pred.prefs THEN pred.prefs[phen] ELSE <<>>

\* Entries held for a phenotype by all individuals of a predator pool.
EntriesFor(preds, phen) ==
    SumSeq([k \in 1..Len(preds) |->
              SumSeq([j \in 1..Len(preds[k].obj.lst) |->
                        Len(HistoryOf(preds[k].obj.lst[j], phen))])])

\* Sum of the eaten counters of a predator pool.
EatenBy(preds) ==
    SumSeq([k \in 1..Len(preds) |->
              SumSeq([j \in 1..Len(preds[k].obj.lst) |->
                        preds[k].obj.lst[j].prey_eaten])])

\* Prey of a phenotype gone between two states of a pool, and their sizes.
RemovedOf(before, after, phen) ==
    SumSeq([k \in 1..Len(before) |->
              IF before[k].obj.phen = phen
              THEN before[k].obj.popu - after[k].obj.popu ELSE 0])
SizeRemoved(before, after) ==
    SumSeq([k \in 1..Len(before) |->
              before[k].obj.size * (before[k].obj.popu - after[k].obj.popu)])

UnboundedMemory(preds) == \A k \in 1..Len(preds) : preds[k].obj.mem = maxsize

\* The histories and counters of preds account for the prey gone from
\* before to after.
Tally(before, after, preds) ==
    /\ \A phen \in PhenAny :
          /\ EntriesFor(preds, phen) = RemovedOf(before, after, phen)
          /\ EntriesFor(preds, phen) <= sim.encounters
          /\ \A k \in 1..Len(preds) : \A j \in 1..Len(preds[k].obj.lst) :
             \A n \in 1..Len(HistoryOf(preds[k].obj.lst[j], phen)) :
                \E m \in 1..Len(before) :
                   /\ before[m].obj.phen = phen
                   /\ before[m].obj.pal = HistoryOf(preds[k].obj.lst[j], phen)[n]
    /\ EatenBy(preds) = SizeRemoved(before, after)

\* C26: with unbounded memory, throughout a generation and at its end the
\* entries in the predators' histories for a phenotype are as many as the
\* prey of that phenotype removed since the generation began, at most
\* `encounters`, each the palatability of a prey of that phenotype (so all
\* 1.0 in the one-species scenario), and the eaten counters add up to the
\* sizes of the prey removed.
C26_HistoryCountsPreyRemoved ==
    /\ (pc \in {"loop", "return"} /\ UnboundedMemory(pred_pool))
          => Tally(prey_pool_current, prey_pool, pred_pool)
    /\ (sim.entry = "one_gen" /\ pc = "done" /\ UnboundedMemory(pred_pool_current))
          => Tally(sim.prey_pool, prey_pool_current, pred_pool_current)

\* The scenario: one prey species (camouflage 0, palatability 1, size 1), one
\* predator with unlimited appetite and memory, as many encounters as prey;
\* one_gen has returned, the species is extinct and the history holds one
\* entry per animal.
C26_Witness ==
    /\ sim.entry = "one_gen" /\ pc = "done"
    /\ Len(sim.prey_pool) = 1
    /\ sim.encounters = sim.prey_pool[1].obj.popu
    /\ prey_pool_current[1].obj.popu = 0
    /\ pred_pool_current[1].obj.lst[1].prefs["x"]
          = [n \in 1..sim.encounters |-> Scale]
    /\ pred_pool_current[1].obj.lst[1].prey_eaten = sim.encounters

\* ------------------------------------------------------------------- C27
Min(a, b) == IF a < b THEN a ELSE b

\* after is before with pal added at the end and then cut to mem entries.
Remembered(before, after, pal, mem) ==
    /\ Len(after) = Min(Len(before) + 1, mem)
    /\ IsSuffix(after, Append(before, pal))
    /\ after[Len(after)] = pal

\* C27: a cycle whose encounter succeeded changes, in the pools, the
\* population of the selected prey species (one less), the history of the
\* selected individual for that prey's phenotype (its palatability added at
\* the end, then trimmed to the memory) and that individual's eaten counter
\* (plus the prey's size), and nothing else; a cycle whose encounter failed
\* leaves both pools as they were.
C27_EncounterFrame ==
    [][CycleStep =>
         IF last'.ok
         THEN LET name == last'.prey
                  spec_name == last'.pred[1]
                  i == last'.pred[2]
                  prey == getitem(prey_pool, name)
                  old == getitem(pred_pool, spec_name)
                  new == getitem(pred_pool', spec_name)
              IN  /\ names(prey_pool') = names(prey_pool)
                  /\ getitem(prey_pool', name) = [prey EXCEPT !.popu = @ - 1]
                  /\ \A k \in 1..Len(prey_pool) :
                        prey_pool[k].name # name => prey_pool'[k] = prey_pool[k]
                  /\ names(pred_pool') = names(pred_pool)
                  /\ \A k \in 1..Len(pred_pool) :
                        pred_pool[k].name # spec_name => pred_pool'[k] = pred_pool[k]
                  /\ new.app = old.app /\ new.mem = old.mem
                  /\ new.insatiable = old.insatiable
                  /\ Len(new.lst) = Len(old.lst)
                  /\ \A j \in 1..Len(old.lst) :
                        j # i + 1 => new.lst[j] = old.lst[j]
                  /\ new.lst[i + 1].prey_eaten = old.lst[i + 1].prey_eaten + prey.size
                  /\ DOMAIN new.lst[i + 1].prefs
                        = (DOMAIN old.lst[i + 1].prefs) \cup {prey.phen}
                  /\ \A phen \in DOMAIN old.lst[i + 1].prefs :
                        phen # prey.phen
                           => new.lst[i + 1].prefs[phen] = old.lst[i + 1].prefs[phen]
                  /\ Remembered(HistoryOf(old.lst[i + 1], prey.phen),
                                new.lst[i + 1].prefs[prey.phen], prey.pal, old.mem)
         ELSE prey_pool' = prey_pool /\ pred_pool' = pred_pool]_vars

\* A cycle has just succeeded in a pool of two populated prey species and
\* two predator individuals, one of which had already eaten.
C27_Witness ==
    /\ pc = "loop"
    /\ last.op = "cycle" /\ last.ok
    /\ Len(prey_pool) = 2
    /\ Len(pred_pool[1].obj.lst) = 2
    /\ \A j \in 1..2 : pred_pool[1].obj.lst[j].prey_eaten > 0

\* ------------------------------------------------------------------- C28
\* C28: every cycle of one_gen calls the random source in this order: one
\* randrange for the prey, one randrange for the predator, and then one
\* random() exactly when a prey and a predator were selected and that
\* predator is hungry.
C28_DrawOrder ==
    [][CycleStep =>
         last'.draws =
            <<"randrange", "randrange">>
               \o (IF /\ last'.prey # None
                      /\ last'.pred[1] # None
                      /\ hungry(getitem(pred_pool, last'.pred[1]), last'.pred[2])
                   THEN <<"random">> ELSE <<>>)]_vars

\* A cycle selected a prey and a predator that had eaten its fill, while
\* another predator was still hungry: two draws and no third.
C28_Witness ==
    /\ pc = "loop"
    /\ last.op = "cycle"
    /\ last.prey # None /\ last.pred[1] # None
    /\ ~hungry(getitem(pred_pool, last.pred[1]), last.pred[2])
    /\ ~last.ok
    /\ last.draws = <<"randrange", "randrange">>
    /\ PredatorPool_popu(pred_pool, TRUE) > 0

\* ------------------------------------------------------------------- C29
\* C29: a record that has been handed to the consumer keeps the populations
\* and the predators it was handed out with, whatever the generator does
\* next.
C29_SnapshotsAreStable ==
    [][(out # NoCall /\ out' # NoCall
           /\ out'.trial = out.trial /\ out'.gen = out.gen)
          => /\ Popus(out'.prey_pool) = Popus(out.prey_pool)
             /\ out'.pred_pool = out.pred_pool]_vars

\* ------------------------------------------------------------------- C30
\* The individuals of the predator pool, as (species name, index) pairs.
PredIndividuals ==
    UNION {{<<pred_pool[k].name, i>> : i \in 0..(Len(pred_pool[k].obj.lst) - 1)} :
             k \in 1..Len(pred_pool)}

HungryIndividuals ==
    {pair \in PredIndividuals : hungry(getitem(pred_pool, pair[1]), pair[2])}

\* C30: in every predator pool, select(hungry_only=True) maps the indices
\* below the hungry total one-to-one onto the hungry individuals, and
\* select(hungry_only=False) maps every index below the total population to
\* an existing individual; so does each call made.
C30_PredSelectReturnsIndividual ==
    /\ \A idx \in 0..(PredatorPool_popu(pred_pool, TRUE) - 1) :
          PredatorPool_select(pred_pool, TRUE, idx) \in HungryIndividuals
    /\ \A pair \in HungryIndividuals :
          Cardinality({idx \in 0..(PredatorPool_popu(pred_pool, TRUE) - 1) :
                         PredatorPool_select(pred_pool, TRUE, idx) = pair}) = 1
    /\ \A idx \in 0..(PredatorPool_popu(pred_pool, FALSE) - 1) :
          PredatorPool_select(pred_pool, FALSE, idx) \in PredIndividuals
    /\ (last.op = "pred_select" /\ last.idx # NoDraw)
          => last.res \in (IF last.mode THEN HungryIndividuals
                           ELSE PredIndividuals)

\* select(hungry_only=True) was called with index 0 while the first
\* individual of the first species had eaten its fill: it returned a later
\* individual.
C30_Witness ==
    /\ last.op = "pred_select" /\ last.mode
    /\ last.idx = 0
    /\ last.res[1] # None
    /\ last.res[1] = pred_pool[1].name
    /\ ~hungry(pred_pool[1].obj, 0)
    /\ last.res[2] > 0

\* ------------------------------------------------------------------- C31
\* C31: the preference an individual applies to a prey species is that of
\* the species' phenotype, so two species sharing a phenotype get the same
\* preference in every state; an eat (direct or through an encounter) of a
\* prey by an individual adds the prey's palatability to that individual's
\* history of the prey's phenotype, which is the history every species of
\* that phenotype is judged by, and leaves the histories of every other
\* phenotype, and every other individual, as they were.
C31_LearningIsPerPhenotype ==
    /\ [](\A i \in Individuals : \A m, n \in NameSet(prey_pool) :
             getitem(prey_pool, m).phen = getitem(prey_pool, n).phen
                => pursuit_chance(TheSpec, i, getitem(prey_pool, m)).pref
                      = pursuit_chance(TheSpec, i, getitem(prey_pool, n)).pref)
    /\ [][\A i \in Individuals : \A n \in NameSet(prey_pool) :
            LET phen == getitem(prey_pool, n).phen
                eaten == getitem(prey_pool, last'.name)
            IN  IF AteJustNow(i, phen)
                THEN /\ WindowOrEmpty(i, phen)' # <<>>
                     /\ Remembered(WindowOrEmpty(i, phen), WindowOrEmpty(i, phen)',
                                   eaten.pal, TheSpec.mem)
                        \/ (TheSpec.mem = 0
                               /\ WindowOrEmpty(i, phen)'
                                     = Append(WindowOrEmpty(i, phen), eaten.pal))
                     /\ get_pref(TheSpec', i, phen)
                           = pursuit_chance(TheSpec', i, getitem(prey_pool', n)).pref
                     /\ \A other \in PhenAny \ {phen} :
                           WindowOrEmpty(i, other)' = WindowOrEmpty(i, other)
                ELSE (last'.op \in {"eat", "encounter"} /\ ncalls' # ncalls)
                        => WindowOrEmpty(i, phen)' = WindowOrEmpty(i, phen)]_vars

\* An individual has eaten the unpalatable "a" and nothing else; "b", which
\* it never ate, shares the phenotype and is now refused like "a", while the
\* other individual still takes both.
C31_Witness ==
    /\ last.op = "eat" /\ last.name = "a"
    /\ getitem(prey_pool, "a").pal = 0
    /\ getitem(prey_pool, "b").phen = getitem(prey_pool, "a").phen
    /\ TheSpec.lst[last.i + 1].prey_eaten = getitem(prey_pool, "a").size
    /\ PrefIsZero(pursuit_chance(TheSpec, last.i, getitem(prey_pool, "b")).pref)
    /\ \E j \in Individuals :
          PrefIsOne(pursuit_chance(TheSpec, j, getitem(prey_pool, "b")).pref)

\* ------------------------------------------------------------------- C35
\* C35: in verbose mode with and without repopulate and in terse mode, the
\* predator pool of the record handed out after a generation is one_gen's
\* predator pool as the generation's encounters left it.
C35_RecordShowsPredatorsAfterEncounters ==
    [][(sim.entry \in {"all_gens", "multi_gen"} /\ Emits /\ gen >= 1)
          => out'.pred_pool = pred_pool]_vars

\* ------------------------------------------------------------------- C36
\* The largest size among the prey species of a pool (0 for an empty pool),
\* and among those of them that have animals.
LargestSize(pool) ==
    IF pool = <<>> THEN 0
    ELSE CHOOSE n \in {pool[k].obj.size : k \in 1..Len(pool)} :
            \A k \in 1..Len(pool) : pool[k].obj.size <= n
Stocked(pool) == SelectSeq(pool, LAMBDA e : e.obj.popu_orig > 0)

\* Every individual of preds has eaten less than its appetite plus the
\* largest prey size, and no more than its appetite when every prey animal
\* has size 1.
EatenWithinAppetite(preds) ==
    \A k \in 1..Len(preds) : \A j \in 1..Len(preds[k].obj.lst) :
        /\ preds[k].obj.lst[j].prey_eaten
              < preds[k].obj.app + LargestSize(sim.prey_pool)
        /\ LargestSize(Stocked(sim.prey_pool)) <= 1
              => preds[k].obj.lst[j].prey_eaten <= preds[k].obj.app

\* C36: in a run, a cycle ends in predation only when the selected
\* individual's eaten counter was below its appetite, so in every state
\* (one_gen's predators, the predators carried between generations, those of
\* the record handed out) every eaten counter is below appetite + largest
\* prey size, and at most the appetite when all prey have size 1.
C36_EatenBelowAppetitePlusSize ==
    /\ [](/\ EatenWithinAppetite(pred_pool)
          /\ EatenWithinAppetite(pred_pool_current)
          /\ out # NoCall => EatenWithinAppetite(out.pred_pool))
    /\ [][(CycleStep /\ last'.ok)
            => getitem(pred_pool, last'.pred[1]).lst[last'.pred[2] + 1].prey_eaten
                  < getitem(pred_pool, last'.pred[1]).app]_vars

\* An individual with an appetite of 1 has eaten a prey of size 2, and has
\* then been selected again without eating.
C36_Witness ==
    /\ pc = "loop"
    /\ last.op = "cycle" /\ ~last.ok /\ last.pred[1] # None
    /\ getitem(pred_pool, last.pred[1]).app = 1
    /\ getitem(pred_pool, last.pred[1]).lst[last.pred[2] + 1].prey_eaten = 2

\* ------------------------------------------------------------------- C37
\* Prey gone from one_gen's pool since the generation began.
EatenInGen == PreyTotal(prey_pool_current, TRUE) - PreyTotal(prey_pool, TRUE)

\* C37: every iteration of one_gen's loop that runs a cycle takes one unit
\* of the budget, whether the cycle ends in predation or not, and removes at
\* most one prey; so the prey eaten in a generation are never more than the
\* iterations used, hence at most `encounters`, and never more than the
\* prey surviving when the generation began.
C37_EatenAtMostBudgetAndPrey ==
    /\ [](pc \in {"loop", "return"}
            => /\ 0 <= left /\ left <= sim.encounters
               /\ EatenInGen <= sim.encounters - left
               /\ EatenInGen <= Min(sim.encounters,
                                    PreyTotal(prey_pool_current, TRUE)))
    /\ [][(CycleStep /\ pc' = "loop")
            => /\ left' = left - 1
               /\ PreyTotal(prey_pool', TRUE)
                     = PreyTotal(prey_pool, TRUE) - (IF last'.ok THEN 1 ELSE 0)]_vars

\* A generation has used its whole budget; its last iteration selected a
\* predator that had eaten its fill and resolved no encounter, so fewer prey
\* were eaten than iterations run.
C37_Witness ==
    /\ pc = "loop" /\ left = 0
    /\ last.op = "cycle" /\ ~last.ok
    /\ last.draws = <<"randrange", "randrange">>
    /\ EatenInGen >= 1
    /\ EatenInGen < sim.encounters
    /\ PreyTotal(prey_pool, TRUE) > 0

\* ------------------------------------------------------------------- C39
\* Every species of before that has no animals has none in after.
ExtinctStay(before, after) ==
    /\ Len(after) = Len(before)
    /\ \A k \in 1..Len(before) :
          before[k].obj.popu = 0 => after[k].obj.popu = 0

\* C39: within a trial, a species whose population is 0 in the pool worked
\* on has population 0 after every step (a cycle, a repopulation, the hand
\* over between one_gen and its caller) and in the record handed out; and a
\* species that a repopulation to any target rounds down to 0 is left at 0
\* by the repopulation after it.
C39_ExtinctSpeciesStaysExtinct ==
    /\ [](\A first, second \in TargetAny :
             ExtinctStay(PreyPool_repopulate(CurrentPrey, first),
                         PreyPool_repopulate(
                             PreyPool_repopulate(CurrentPrey, first), second)))
    /\ [][(trial' = trial /\ trial >= 1)
            => /\ ExtinctStay(CurrentPrey, CurrentPrey')
               /\ out' # NoCall => ExtinctStay(CurrentPrey, out'.prey_pool)]_vars

\* A later generation starts, after a repopulation, on a pool in which one
\* species was eaten up in an earlier generation while another survives.
C39_Witness ==
    /\ pc = "loop"
    /\ gen >= 2
    /\ left = sim.encounters
    /\ PreyTotal(prey_pool, TRUE) > 0
    /\ \E k \in 1..Len(prey_pool) :
          prey_pool[k].obj.popu = 0 /\ prey_pool[k].obj.popu_orig > 0

\* ------------------------------------------------------------------- C38
\* Number of species of a pool that have animals.
NonZeroSpecies(pool) == Cardinality({k \in 1..Len(pool) : pool[k].obj.popu # 0})

\* C38: a repopulate on a pool with survivors, to the target given or to the
\* original total, leaves a total population whose distance from the target
\* is at most half the number of species that had animals.
C38_RepopulateTotalNearTarget ==
    [][(last'.op = "repopulate" /\ PreyTotal(prey_pool, TRUE) > 0)
          => LET target == IF last'.given THEN last'.target
                           ELSE PreyTotal(prey_pool, FALSE)
                 total == PreyTotal(prey_pool', TRUE)
             IN  /\ 2 * (total - target) <= NonZeroSpecies(prey_pool)
                 /\ 2 * (target - total) <= NonZeroSpecies(prey_pool)]_vars

\* A pool of two species with animals has been repopulated to a target and
\* holds one animal more than the target.
C38_Witness ==
    /\ last.op = "repopulate" /\ last.given
    /\ Len(prey_pool) = 2
    /\ PreyTotal(prey_pool, TRUE) = last.target + 1

\* ------------------------------------------------------------------- C40
\* C40: a replace that raises, whatever the value and the force flag,
\* leaves both pools as they were: the species bound to the name is still
\* there.
C40_FailedReplaceLeavesPool ==
    [][(/\ last'.op \in {"replace", "replace_forced",
                          "misreplace", "misreplace_forced"}
        /\ last'.raised # Returned)
          => /\ prey_pool' = prey_pool
             /\ pred_pool' = pred_pool]_vars

\* ================================================ two runs on the same draws
\* Two trials of run_raw side by side, every random call of an iteration
\* returning the same value in both: either one Simulation run in verbose
\* mode (side 1, all_gens) and in terse mode (side 2, multi_gen), or, in one
\* mode, a Simulation and its copy with the insatiable flag of every
\* predator species inverted.  The Simulation is built from prey whose
\* population may have been set after construction and from predators that
\* may have eaten before.  Here every run variable holds the pair of the
\* two sides' values; pc, gen and left are common to both, a side whose
\* loop has been left standing still for the rest of the generation.

\* The fields of one side.
Frame(side) ==
    [sim |-> sim[side],
     prey_pool_current |-> prey_pool_current[side],
     pred_pool_current |-> pred_pool_current[side],
     prey_pool |-> prey_pool[side], pred_pool |-> pred_pool[side],
     out |-> out[side]]

\* all_gens / multi_gen up to the loop over the generations: the deep
\* copies, and the yield of generation 0 by all_gens with repopulate.
started(f) ==
    [f EXCEPT !.prey_pool_current = f.sim.prey_pool,
              !.pred_pool_current = f.sim.pred_pool,
              !.out = IF f.sim.entry = "all_gens" /\ f.sim.repopulate
                      THEN Record(1, 0, f.sim.prey_pool, f.sim.pred_pool)
                      ELSE NoCall]

\* The loop body up to one_gen's deep copies: multi_gen resets the
\* predators and repopulates first.
begun(f) ==
    LET prey == IF f.sim.entry = "multi_gen"
                THEN PreyPool_repopulate_default(f.prey_pool_current)
                ELSE f.prey_pool_current
        pred == IF f.sim.entry = "multi_gen" THEN f.sim.pred_pool
                ELSE f.pred_pool_current
    IN  [f EXCEPT !.prey_pool_current = prey, !.pred_pool_current = pred,
                  !.prey_pool = prey, !.pred_pool = pred, !.out = NoCall]

\* One iteration of one_gen's loop, the random calls returning prey_idx,
\* pred_idx and draw; nothing changes once the loop has been left.
cycled(f, prey_idx, pred_idx, draw) ==
    IF ~one_gen_continue(f.prey_pool, f.pred_pool) THEN f
    ELSE LET prey_name == PreyPool_select(f.prey_pool, FALSE, prey_idx)
             sel == PredatorPool_select(f.pred_pool, FALSE, pred_idx)
         IN  IF sel[1] = None \/ prey_name = None THEN f
             ELSE LET spec == getitem(f.pred_pool, sel[1])
                      r == encounter(spec, sel[2], getitem(f.prey_pool, prey_name),
                                     IF hungry(spec, sel[2]) THEN draw ELSE NoDraw)
                  IN  [f EXCEPT !.pred_pool = setitem(f.pred_pool, sel[1], r.spec),
                                !.prey_pool =
                                    setitem(f.prey_pool, prey_name,
                                            [r.prey EXCEPT !.popu =
                                                IF r.ok THEN @ - 1 ELSE @])]

\* one_gen returns in generation g: all_gens yields its record (after
\* repopulating and resetting when repopulate is set); multi_gen goes on, or
\* returns after the last generation the pools that run_raw yields.
returned(f, g) ==
    LET prey == IF f.sim.repopulate
                   /\ (f.sim.entry = "all_gens" \/ g >= f.sim.generations)
                THEN PreyPool_repopulate_default(f.prey_pool)
                ELSE f.prey_pool
        pred == IF f.sim.repopulate /\ f.sim.entry = "all_gens"
                THEN f.sim.pred_pool ELSE f.pred_pool
    IN  [f EXCEPT !.prey_pool_current = prey, !.pred_pool_current = pred,
                  !.prey_pool = <<>>, !.pred_pool = <<>>,
                  !.out = IF f.sim.entry = "all_gens" THEN Record(1, g, prey, pred)
                          ELSE IF g >= f.sim.generations THEN Record(1, 1, prey, pred)
                          ELSE NoCall]

\* The consumer asks for the next record: all_gens without repopulate
\* repopulates the pool it yielded and resets the predators.
resumed(f) ==
    IF f.sim.entry = "all_gens" /\ ~f.sim.repopulate
    THEN [f EXCEPT !.prey_pool_current = PreyPool_repopulate_default(@),
                   !.pred_pool_current = f.sim.pred_pool,
                   !.out.prey_pool = PreyPool_repopulate_default(f.prey_pool_current)]
    ELSE f

\* The prey pools a caller builds: plain "a" and a bigger, half palatable
\* "b" of another phenotype; the same after a.popu was set to one animal
\* less; an unpalatable "a" and its mimic "b".
PreyIn ==
    {<<[name |-> "a", obj |-> Prey(MaxPopu, "x", 1, 0, Scale)],
       [name |-> "b", obj |-> Prey(1, "y", 2, 0, 1)]>>,
     <<[name |-> "a", obj |-> [Prey(MaxPopu, "x", 1, 0, Scale)
                                 EXCEPT !.popu = MaxPopu - 1]],
       [name |-> "b", obj |-> Prey(1, "y", 2, 0, 1)]>>,
     <<[name |-> "a", obj |-> Prey(MaxPopu, "x", 1, 0, 0)],
       [name |-> "b", obj |-> Prey(1, "x", 2, 0, 1)]>>}

\* The predator pools a caller builds: one individual without limits; two
\* individuals with an appetite of 1; two individuals with a memory of 1,
\* the first of which has eaten a half palatable prey of phenotype "x".
PredIn ==
    {<<[name |-> "p", obj |-> PredatorSpecies(1, <<>>, maxsize, maxsize, TRUE)]>>,
     <<[name |-> "p", obj |-> PredatorSpecies(2, <<>>, 1, maxsize, TRUE)]>>,
     <<[name |-> "p",
        obj |-> eat(PredatorSpecies(2, <<>>, maxsize, 1, TRUE), 0,
                    Prey(1, "x", 1, 0, 1))]>>}

\* The pool with the insatiable flag of every species inverted.
Inverted(pred) ==
    [k \in 1..Len(pred) |-> [pred[k] EXCEPT !.obj.insatiable = ~@]]

Pairings == {"modes", "flag"}

TwinInit ==
    /\ \E prey_in \in PreyIn, pred_in \in PredIn, repopulate \in BOOLEAN :
       \E pairing \in Pairings, entry \in {"all_gens", "multi_gen"} :
          /\ pairing = "modes" => entry = "all_gens"
          /\ sim = <<Simulation(prey_in, pred_in, MaxEncounters, MaxGenerations,
                                1, repopulate, entry),
                     Simulation(prey_in,
                                IF pairing = "flag" THEN Inverted(pred_in)
                                ELSE pred_in,
                                MaxEncounters, MaxGenerations, 1, repopulate,
                                IF pairing = "modes" THEN "multi_gen" ELSE entry)>>
          /\ last = [op |-> "Simulation", prey_pool |-> prey_in,
                     pred_pool |-> pred_in]
    /\ pc = "start"
    /\ trial = 1 /\ gen = 0 /\ left = 0
    /\ prey_pool_current = <<<<>>, <<>>>> /\ pred_pool_current = <<<<>>, <<>>>>
    /\ prey_pool = <<<<>>, <<>>>> /\ pred_pool = <<<<>>, <<>>>>
    /\ out = <<NoCall, NoCall>>
    /\ ncalls = 0

\* Both sides become f1 and f2.
Become(f1, f2) ==
    /\ prey_pool_current' = <<f1.prey_pool_current, f2.prey_pool_current>>
    /\ pred_pool_current' = <<f1.pred_pool_current, f2.pred_pool_current>>
    /\ prey_pool' = <<f1.prey_pool, f2.prey_pool>>
    /\ pred_pool' = <<f1.pred_pool, f2.pred_pool>>
    /\ out' = <<f1.out, f2.out>>

TwinStart ==
    /\ pc = "start"
    /\ Become(started(Frame(1)), started(Frame(2)))
    /\ pc' = "gen"
    /\ UNCHANGED <<sim, trial, gen, left, last, ncalls>>

TwinBeginGen ==
    /\ pc = "gen"
    /\ Become(begun(Frame(1)), begun(Frame(2)))
    /\ gen' = gen + 1
    /\ left' = sim[1].encounters
    /\ pc' = "loop"
    /\ UNCHANGED <<sim, trial, last, ncalls>>

\* Whether the loop of a side is still running.
Running(side) == one_gen_continue(prey_pool[side], pred_pool[side])

TwinCycle(prey_idx, pred_idx, draw) ==
    /\ pc = "loop"
    /\ left > 0
    /\ \E side \in {1, 2} : Running(side)
    /\ Become(cycled(Frame(1), prey_idx, pred_idx, draw),
              cycled(Frame(2), prey_idx, pred_idx, draw))
    /\ left' = left - 1
    /\ UNCHANGED <<sim, pc, trial, gen, last, ncalls>>

\* Both loops have been left through the break.
TwinBreak ==
    /\ pc = "loop"
    /\ left > 0
    /\ ~Running(1) /\ ~Running(2)
    /\ left' = 0
    /\ UNCHANGED <<sim, pc, trial, gen, prey_pool_current, pred_pool_current,
                   prey_pool, pred_pool, out, last, ncalls>>

TwinReturn ==
    /\ pc = "loop"
    /\ left = 0
    /\ Become(returned(Frame(1), gen), returned(Frame(2), gen))
    /\ pc' = "yielded"
    /\ UNCHANGED <<sim, trial, gen, left, last, ncalls>>

TwinResume ==
    /\ pc = "yielded"
    /\ Become(resumed(Frame(1)), resumed(Frame(2)))
    /\ pc' = IF gen < sim[1].generations THEN "gen" ELSE "done"
    /\ UNCHANGED <<sim, trial, gen, left, last, ncalls>>

TwinNext ==
    \/ TwinStart
    \/ TwinBeginGen
    \/ \E prey_idx \in PreyPool_draws(prey_pool[1], FALSE) :
          \E pred_idx \in PredatorPool_draws(pred_pool[1], FALSE) :
          \E draw \in 0..(Scale - 1) :
              TwinCycle(prey_idx, pred_idx, draw)
    \/ TwinBreak
    \/ TwinReturn
    \/ TwinResume

TwinSpec == TwinInit /\ [][TwinNext]_vars

\* ------------------------------------------------------------------- C34
\* Side 1 runs in verbose mode and side 2 in terse mode.
ModesPaired == sim[1].entry = "all_gens" /\ sim[2].entry = "multi_gen"

\* Both sides have handed out the record of the last generation.
LastHandedOut == pc = "yielded" /\ gen = sim[1].generations

\* C34: on the same draws and with the same repopulate flag, the prey
\* populations that terse mode reports for a trial are those of the last
\* verbose record of the trial, for every configuration, prey whose
\* population was set after construction included.
C34_TerseEqualsLastVerbose ==
    (ModesPaired /\ LastHandedOut)
        => Popus(out[2].prey_pool) = Popus(out[1].prey_pool)

\* The same for configurations whose prey all are at their original
\* population.
UnalteredTerseEqualsLastVerbose ==
    (/\ ModesPaired
     /\ LastHandedOut
     /\ \A k \in 1..Len(sim[1].prey_pool) :
            sim[1].prey_pool[k].obj.popu = sim[1].prey_pool[k].obj.popu_orig)
        => Popus(out[2].prey_pool) = Popus(out[1].prey_pool)

\* ------------------------------------------------------------------- C32
\* The two sides run the same mode on Simulations that differ in nothing
\* but the insatiable flag of the predator species.
FlagPaired ==
    /\ sim[1].entry = sim[2].entry
    /\ sim[2].pred_pool = Inverted(sim[1].pred_pool)
    /\ sim[2] = [sim[1] EXCEPT !.pred_pool = sim[2].pred_pool]

\* The same species with the same individuals: histories and eaten
\* counters equal.
SamePredators(p, q) ==
    /\ Len(p) = Len(q)
    /\ \A k \in 1..Len(p) :
          /\ p[k].name = q[k].name
          /\ p[k].obj.lst = q[k].obj.lst

\* The records of both sides, if any, agree on prey and predators.
SameRecords(r, q) ==
    IF "prey_pool" \in DOMAIN r /\ "prey_pool" \in DOMAIN q
    THEN /\ r.trial = q.trial /\ r.gen = q.gen
         /\ r.prey_pool = q.prey_pool
         /\ SamePredators(r.pred_pool, q.pred_pool)
    ELSE r = q

\* C32: two configurations that differ only in the insatiable flag of the
\* predator species, run on the same draws, have the same prey
\* populations, predator histories and eaten counters at every step and
\* in every record.
C32_InsatiableFlagIsInert ==
    FlagPaired =>
        /\ prey_pool[1] = prey_pool[2]
        /\ prey_pool_current[1] = prey_pool_current[2]
        /\ SamePredators(pred_pool[1], pred_pool[2])
        /\ SamePredators(pred_pool_current[1], pred_pool_current[2])
        /\ SameRecords(out[1], out[2])

\* On the side whose flag is off an individual has eaten a prey bigger
\* than what was left of its appetite.
C32_Witness ==
    /\ FlagPaired
    /\ pc = "loop"
    /\ \E side \in {1, 2} : \E k \in 1..Len(pred_pool[side]) :
          /\ ~pred_pool[side][k].obj.insatiable
          /\ \E i \in 1..Len(pred_pool[side][k].obj.lst) :
                pred_pool[side][k].obj.lst[i].prey_eaten
                    > pred_pool[side][k].obj.app

\* ------------------------------------------------------------------- C33
\* Every individual of the pool has a history entry for every phenotype of
\* the prey pool.
KnowsAll(pred, prey) ==
    \A k \in 1..Len(pred) : \A i \in 1..Len(pred[k].obj.lst) :
        Phens(prey) \subseteq DOMAIN pred[k].obj.lst[i].prefs

\* The individual after is the individual before with an empty entry added
\* for every phenotype of prey it had none for, and nothing else changed.
LearnedFrom(before, after, prey) ==
    /\ after.prey_eaten = before.prey_eaten
    /\ DOMAIN after.prefs = (DOMAIN before.prefs) \cup Phens(prey)
    /\ \A ph \in DOMAIN after.prefs :
          after.prefs[ph] = IF ph \in DOMAIN before.prefs THEN before.prefs[ph]
                            ELSE <<>>

\* A generation is about to start.
GenerationStarts == pc = "loop" /\ left = sim[1].encounters

\* C33: in a constructed Simulation every predator individual has a
\* history entry for every phenotype of the prey pool, empty where the
\* constructor created it and as passed in where it existed; and every
\* predator has an entry for every phenotype of the prey pool at the start
\* of every generation.
C33_PredatorsKnowEveryPhenotype ==
    \A side \in {1, 2} :
        /\ KnowsAll(sim[side].pred_pool, sim[side].prey_pool)
        /\ Len(sim[side].pred_pool) = Len(last.pred_pool)
        /\ \A k \in 1..Len(last.pred_pool) :
              /\ Len(sim[side].pred_pool[k].obj.lst)
                    = Len(last.pred_pool[k].obj.lst)
              /\ \A i \in 1..Len(last.pred_pool[k].obj.lst) :
                    LearnedFrom(last.pred_pool[k].obj.lst[i],
                                sim[side].pred_pool[k].obj.lst[i],
                                sim[side].prey_pool)
        /\ GenerationStarts => KnowsAll(pred_pool[side], prey_pool[side])

\* The second generation starts in a Simulation built from an individual
\* that had a history for "x" and none for "y".
C33_Witness ==
    /\ GenerationStarts
    /\ gen = 2
    /\ \E k \in 1..Len(last.pred_pool) :
       \E i \in 1..Len(last.pred_pool[k].obj.lst) :
          /\ DOMAIN last.pred_pool[k].obj.lst[i].prefs = {"x"}
          /\ last.pred_pool[k].obj.lst[i].prefs["x"] # <<>>
          /\ sim[1].pred_pool[k].obj.lst[i].prefs["x"]
                = last.pred_pool[k].obj.lst[i].prefs["x"]
          /\ "y" \in Phens(sim[1].prey_pool)
          /\ sim[1].pred_pool[k].obj.lst[i].prefs["y"] = <<>>
          /\ pred_pool[1][k].obj.lst[i].prefs["y"] = <<>>

====
